---- MODULE Spec2Model ----
(***************************************************************************)
(* Model of the NFS operation test-runner of nfs-tester (src/suite.go):    *)
(* the probe catalogue, the execution engine runOps, summarize, and the    *)
(* two orchestrators RunIsolatedSuite and RunSharedSuite, running against  *)
(* one filesystem that several suite invocations share.                    *)
(*                                                                         *)
(* Conventions.                                                            *)
(*  - A Go string that the program builds with fmt.Sprintf is a sequence   *)
(*    of string tokens (Str); the empty string is <<>>.                    *)
(*  - A file name is a record [pre, id, suf]: "marker-7.txt" is            *)
(*    [pre |-> "marker-", id |-> 7, suf |-> ".txt"]; a name without a      *)
(*    number has id = NoId.                                                *)
(*  - The bytes of a file are a sequence of string tokens.                 *)
(*  - A path is the sequence of names below basePath; <<>> is basePath.    *)
(*  - The filesystem under test may lack operations: the set broken of     *)
(*    system calls that fail with EIO is chosen when the system starts.    *)
(***************************************************************************)
EXTENDS Integers, Sequences, FiniteSets, TLC

VARIABLES
    broken,     \* system calls the filesystem under test fails
    fs,         \* the filesystem: path -> node
    pc,         \* per run id: position of its suite invocation
    loc,        \* per run id: local variables of the running orchestrator
    ret,        \* per run id: the SuiteResult just returned to the caller, or NoResult
    prior,      \* per run id: shared runs that had returned when its shared run started
    eng         \* an execution taken step by step: of runOps over a catalogue
                \* (SpecEngine, SpecCore, SpecProbe), with the probes it has invoked
                \* in calls; or of concurrent_writes with its goroutines (SpecWriters)

vars == <<broken, fs, pc, loc, ret, prior, eng>>

----------------------------------------------------------------------------
(* Bounds *)

NumRuns == 2
MaxBroken == 1
MaxCatalogueLen == 3

RunIds == 1..NumRuns

----------------------------------------------------------------------------
(* Strings, names and paths *)

EmptyStr == <<>>
NoErr == <<>>
NoId == -1

N(pre, suf) == [pre |-> pre, id |-> NoId, suf |-> suf]
NI(pre, id, suf) == [pre |-> pre, id |-> id, suf |-> suf]

IdStr(id) == IF id = NoId THEN "" ELSE ToString(id)
NameStr(n) == n.pre \o IdStr(n.id) \o n.suf

BoolStr(b) == IF b THEN "true" ELSE "false"

\* strings.HasPrefix / strings.HasSuffix on a file name
HasPrefix(n, p) == n.pre = p
HasSuffix(n, s) == n.suf = s

\* strings.HasPrefix on a message
StrHasPrefix(s, p) == Len(s) > 0 /\ s[1] = p

Join(dir, name) == Append(dir, name)
Parent(p) == SubSeq(p, 1, Len(p) - 1)
Base(p) == p[Len(p)]
IsUnder(p, d) == Len(d) <= Len(p) /\ SubSeq(p, 1, Len(d)) = d

\* The file names of the program in byte order, as os.ReadDir sorts them:
\* names without their number. Run ids have equal width, and so have the
\* numbers of the other numbered names, so that two names of one entry are in
\* the order of their numbers.
NameOrder ==
    << <<"binary", ".bin">>, <<"concurrent-", ".txt">>, <<"deep", "">>, <<"dir", "">>,
       <<"engine", "">>, <<"exclusive", ".txt">>, <<"file-", ".txt">>, <<"large", ".bin">>,
       <<"locktest", ".txt">>, <<"marker-", ".txt">>, <<"moved", ".txt">>,
       <<"mtime-test", ".txt">>, <<"nested", "">>, <<"nfs-test-", ".tmp">>,
       <<"readdir-test", "">>, <<"renamed", ".txt">>, <<"run-", "">>, <<"seektest", ".txt">>,
       <<"shared", "">>, <<"sparse", ".bin">>, <<"subdir", "">>, <<"subfile", ".txt">>,
       <<"test-copy", ".txt">>, <<"test-hardlink", ".txt">>, <<"test-isolated-", "">>,
       <<"test-link", ".txt">>, <<"test", ".fifo">>, <<"test", ".txt">>,
       <<"truncate-test", ".txt">> >>
NameRank(n) == CHOOSE i \in 1..Len(NameOrder) : NameOrder[i] = <<n.pre, n.suf>>
\* the place of a name in that order, as a number: IdSpan is more than any
\* number a name holds
IdSpan == 1000
NameKey(n) == NameRank(n) * IdSpan + (n.id + 1)
NameLess(a, b) == NameKey(a) < NameKey(b)

\* the names of S in that order: a name stands behind the names less than it
SortNames(S) ==
    LET keyed == {<<NameKey(x), x>> : x \in S}
        keys == {e[1] : e \in keyed}
        placed == {<<Cardinality({q \in keys : q < e[1]}) + 1, e[2]>> : e \in keyed}
    IN  [i \in 1..Cardinality(S) |-> (CHOOSE e \in placed : e[1] = i)[2]]

RECURSIVE JoinNames(_)
JoinNames(names) ==
    IF names = <<>> THEN <<>>
    ELSE IF Len(names) = 1 THEN <<NameStr(names[1])>>
    ELSE <<NameStr(names[1]), ", ">> \o JoinNames(Tail(names))

----------------------------------------------------------------------------
(* The filesystem *)

Syscalls == {"MkdirAll", "Mkdir", "Stat", "Lstat", "WriteFile", "ReadFile",
             "OpenFile", "Write", "Chmod", "Rename", "Symlink", "Readlink",
             "Remove", "RemoveAll", "Truncate", "Link", "Mkfifo", "ReadDir",
             "Seek", "ReadAt", "CreateTemp"}

\* what else the filesystem under test may lack: a clock finer than 100ms for
\* modification times, a clock that does not step back, the rejection of a
\* second exclusive create, and reads that return the bytes that were written
Capabilities == Syscalls \cup {"mtime", "clock", "O_EXCL", "integrity"}

Ok(call) == call \notin broken
EIO == <<"input/output error">>
ENOENT == <<"no such file or directory">>
EEXIST == <<"file exists">>
ENOTDIR == <<"not a directory">>
EISDIR == <<"is a directory">>
ENOTEMPTY == <<"directory not empty">>

DirNode == [kind |-> "dir", data |-> <<>>, mode |-> "drwxr-xr-x", target |-> <<>>]
FileNode(data, mode) == [kind |-> "file", data |-> data, mode |-> mode, target |-> <<>>]
LinkNode(target) == [kind |-> "symlink", data |-> <<>>, mode |-> "Lrwxrwxrwx", target |-> target]
FifoNode == [kind |-> "fifo", data |-> <<>>, mode |-> "prw-r--r--", target |-> <<>>]

Exists(f, p) == p \in DOMAIN f
IsDirAt(f, p) == p \in DOMAIN f /\ f[p].kind = "dir"
Put(f, p, node) == (p :> node) @@ f
\* (f @@ <<>> is f; TLC builds the function at once instead of on every use)
Del(f, S) == [q \in DOMAIN f \ S |-> f[q]] @@ <<>>
Children(f, d) == {Base(q) : q \in {q \in DOMAIN f : Len(q) = Len(d) + 1 /\ IsUnder(q, d)}}
Prefixes(p) == {SubSeq(p, 1, k) : k \in 0..Len(p)}

\* the path a name resolves to (one level of symbolic link)
Resolve(f, p) == IF p \in DOMAIN f /\ f[p].kind = "symlink" THEN f[p].target ELSE p

\* the bytes of a file are a sequence of string tokens; its size is their total
\* length. Three tokens stand for long byte strings.
Pattern1MB == "<1048576 bytes, byte i = i mod 256>"
Hole1MB == "<1048576 zero bytes>"
AllBytes == "<256 bytes, byte i = i>"
TokLen(tok) == CASE tok = Pattern1MB -> 1048576 [] tok = Hole1MB -> 1048576 [] tok = AllBytes -> 256 [] OTHER -> Len(tok)

RECURSIVE Size(_)
Size(data) == IF data = <<>> THEN 0 ELSE TokLen(data[1]) + Size(Tail(data))

NilInfo == [nil |-> TRUE, name |-> "", size |-> 0, mode |-> "", kind |-> ""]
Info(f, p, q) == [nil |-> FALSE, name |-> NameStr(Base(p)), size |-> Size(f[q].data),
                  mode |-> f[q].mode, kind |-> f[q].kind]

R(f, err) == [fs |-> f, err |-> err]

\* os.MkdirAll
MkdirAll(f, p) ==
    IF ~Ok("MkdirAll") THEN R(f, EIO)
    ELSE IF \E q \in Prefixes(p) : q \in DOMAIN f /\ f[q].kind # "dir" THEN R(f, ENOTDIR)
    ELSE R([q \in DOMAIN f \cup Prefixes(p) |-> IF q \in DOMAIN f THEN f[q] ELSE DirNode], NoErr)

\* os.Mkdir
Mkdir(f, p) ==
    IF ~Ok("Mkdir") THEN R(f, EIO)
    ELSE IF ~IsDirAt(f, Parent(p)) THEN R(f, ENOENT)
    ELSE IF Exists(f, p) THEN R(f, EEXIST)
    ELSE R(Put(f, p, DirNode), NoErr)

\* os.Stat: [err, info]; info is nil when err is not
Stat(f, p) ==
    IF ~Ok("Stat") THEN [err |-> EIO, info |-> NilInfo]
    ELSE IF ~Exists(f, p) \/ ~Exists(f, Resolve(f, p)) THEN [err |-> ENOENT, info |-> NilInfo]
    ELSE [err |-> NoErr, info |-> Info(f, p, Resolve(f, p))]

\* os.Lstat
Lstat(f, p) ==
    IF ~Ok("Lstat") THEN [err |-> EIO, info |-> NilInfo]
    ELSE IF ~Exists(f, p) THEN [err |-> ENOENT, info |-> NilInfo]
    ELSE [err |-> NoErr, info |-> Info(f, p, p)]

\* os.WriteFile: create or truncate, then write
WriteFile(f, p, data, perm) ==
    IF ~Ok("WriteFile") THEN R(f, EIO)
    ELSE IF ~IsDirAt(f, Parent(p)) THEN R(f, ENOENT)
    ELSE IF IsDirAt(f, p) THEN R(f, EISDIR)
    ELSE R(Put(f, p, FileNode(data, IF Exists(f, p) THEN f[p].mode ELSE perm)), NoErr)

\* the bytes that a read returns for the bytes data of a file: other bytes on
\* a filesystem that does not keep what was written
Garbled == "<other bytes>"
ReadBack(data) == IF Ok("integrity") \/ data = <<>> THEN data ELSE <<Garbled>> \o Tail(data)

\* os.ReadFile: [err, data]
ReadFile(f, p) ==
    IF ~Ok("ReadFile") THEN [err |-> EIO, data |-> <<>>]
    ELSE IF ~Exists(f, p) \/ ~Exists(f, Resolve(f, p)) THEN [err |-> ENOENT, data |-> <<>>]
    ELSE IF f[Resolve(f, p)].kind = "dir" THEN [err |-> EISDIR, data |-> <<>>]
    ELSE [err |-> NoErr, data |-> ReadBack(f[Resolve(f, p)].data)]

\* os.ReadDir: [err, entries], the entries sorted by file name
ReadDir(f, d) ==
    IF ~Ok("ReadDir") THEN [err |-> EIO, entries |-> <<>>]
    ELSE IF ~Exists(f, d) THEN [err |-> ENOENT, entries |-> <<>>]
    ELSE IF ~IsDirAt(f, d) THEN [err |-> ENOTDIR, entries |-> <<>>]
    ELSE [err |-> NoErr, entries |-> SortNames(Children(f, d))]

\* os.Remove: a file, or an empty directory
Remove(f, p) ==
    IF ~Ok("Remove") THEN R(f, EIO)
    ELSE IF ~Exists(f, p) THEN R(f, ENOENT)
    ELSE IF IsDirAt(f, p) /\ Children(f, p) # {} THEN R(f, ENOTEMPTY)
    ELSE R(Del(f, {p}), NoErr)

\* os.RemoveAll: the whole tree; no error when the path does not exist
RemoveAll(f, p) ==
    IF ~Ok("RemoveAll") THEN R(f, EIO)
    ELSE R(Del(f, {q \in DOMAIN f : IsUnder(q, p)}), NoErr)

\* os.OpenFile and os.Create: create tells O_CREATE, excl O_EXCL, trunc O_TRUNC
OpenFile(f, p, create, excl, trunc) ==
    IF ~Ok("OpenFile") THEN R(f, EIO)
    ELSE IF Exists(f, p)
         THEN IF create /\ excl /\ Ok("O_EXCL") THEN R(f, EEXIST)
              ELSE IF IsDirAt(f, p) THEN R(f, EISDIR)
              ELSE IF trunc THEN R(Put(f, p, FileNode(<<>>, f[p].mode)), NoErr)
              ELSE R(f, NoErr)
    ELSE IF ~create \/ ~IsDirAt(f, Parent(p)) THEN R(f, ENOENT)
    ELSE R(Put(f, p, FileNode(<<>>, "-rw-r--r--")), NoErr)

\* the bytes of data with new written at offset off (data in one-byte tokens
\* when off is inside it)
Splice(data, off, new) ==
    IF off >= Size(data) THEN data \o (IF off > Size(data) THEN <<Hole1MB>> ELSE <<>>) \o new
    ELSE SubSeq(data, 1, off) \o new \o SubSeq(data, off + Len(new) + 1, Len(data))

\* a write on an open descriptor of p: at offset off, or at the end when off = AtEnd
AtEnd == -1
FdWrite(f, p, off, new) ==
    IF ~Ok("Write") THEN R(f, EIO)
    ELSE IF ~Exists(f, p) THEN R(f, NoErr)
    ELSE R(Put(f, p, FileNode(IF off = AtEnd THEN f[p].data \o new ELSE Splice(f[p].data, off, new),
                              f[p].mode)), NoErr)

\* os.Chmod
Chmod(f, p, mode) ==
    IF ~Ok("Chmod") THEN R(f, EIO)
    ELSE IF ~Exists(f, p) THEN R(f, ENOENT)
    ELSE R(Put(f, p, [f[p] EXCEPT !.mode = mode]), NoErr)

\* os.Rename of a file
Rename(f, src, dst) ==
    IF ~Ok("Rename") THEN R(f, EIO)
    ELSE IF ~Exists(f, src) \/ ~IsDirAt(f, Parent(dst)) THEN R(f, ENOENT)
    ELSE IF IsDirAt(f, dst) THEN R(f, EEXIST)
    ELSE R(Put(Del(f, {src}), dst, f[src]), NoErr)

\* os.Symlink
Symlink(f, target, link) ==
    IF ~Ok("Symlink") THEN R(f, EIO)
    ELSE IF ~IsDirAt(f, Parent(link)) THEN R(f, ENOENT)
    ELSE IF Exists(f, link) THEN R(f, EEXIST)
    ELSE R(Put(f, link, LinkNode(target)), NoErr)

\* os.Readlink: [err, target]
Readlink(f, p) ==
    IF ~Ok("Readlink") THEN [err |-> EIO, target |-> <<>>]
    ELSE IF ~Exists(f, p) THEN [err |-> ENOENT, target |-> <<>>]
    ELSE IF f[p].kind # "symlink" THEN [err |-> <<"invalid argument">>, target |-> <<>>]
    ELSE [err |-> NoErr, target |-> f[p].target]

\* os.Link: the new name carries the bytes of the old one (no probe writes
\* through a link)
Link(f, src, dst) ==
    IF ~Ok("Link") THEN R(f, EIO)
    ELSE IF ~Exists(f, src) \/ ~IsDirAt(f, Parent(dst)) THEN R(f, ENOENT)
    ELSE IF Exists(f, dst) THEN R(f, EEXIST)
    ELSE R(Put(f, dst, f[src]), NoErr)

\* syscall.Mkfifo
Mkfifo(f, p) ==
    IF ~Ok("Mkfifo") THEN R(f, EIO)
    ELSE IF ~IsDirAt(f, Parent(p)) THEN R(f, ENOENT)
    ELSE IF Exists(f, p) THEN R(f, EEXIST)
    ELSE R(Put(f, p, FifoNode), NoErr)

\* os.Truncate to a smaller size (data in one-byte tokens)
Truncate(f, p, size) ==
    IF ~Ok("Truncate") THEN R(f, EIO)
    ELSE IF ~Exists(f, p) THEN R(f, ENOENT)
    ELSE R(Put(f, p, FileNode(SubSeq(f[p].data, 1, size), f[p].mode)), NoErr)

\* os.IsNotExist
IsNotExist(err) == err = ENOENT

----------------------------------------------------------------------------
(* Probe outcomes *)

EmptyRes == [Before |-> EmptyStr, After |-> EmptyStr, Context |-> EmptyStr, Details |-> EmptyStr]
Res(before, after, context, details) ==
    [Before |-> before, After |-> after, Context |-> context, Details |-> details]

\* a probe returns (opResult, error), or panics; fs is the filesystem it leaves
Ret(f, res, err) == [fs |-> f, res |-> res, err |-> err, panicked |-> FALSE, pval |-> ""]
PanicRet(f) == [fs |-> f, res |-> EmptyRes, err |-> NoErr, panicked |-> TRUE,
                pval |-> "runtime error: invalid memory address or nil pointer dereference"]

Wrap(prefix, err) == <<prefix>> \o err

----------------------------------------------------------------------------
(* Core operations *)

TestTxt == N("test", ".txt")

opCreateFile(f, dir) ==
    LET ctx == <<"os.WriteFile test.txt on NFS">>
        mk == MkdirAll(f, dir)
    IN  IF mk.err # NoErr THEN Ret(mk.fs, Res(EmptyStr, EmptyStr, ctx, EmptyStr), Wrap("mkdir: ", mk.err))
        ELSE
        LET path == Join(dir, TestTxt)
            before == <<"test.txt exists=", BoolStr(Stat(mk.fs, path).err = NoErr)>>
            wr == WriteFile(mk.fs, path, <<"hello nfs">>, "-rw-r--r--")
        IN  IF wr.err # NoErr THEN Ret(wr.fs, Res(before, EmptyStr, ctx, EmptyStr), wr.err)
            ELSE
            LET info == Stat(wr.fs, path).info
            IN  IF info.nil THEN PanicRet(wr.fs)
                ELSE Ret(wr.fs,
                         Res(before, <<"test.txt size=", ToString(info.size), " mode=", info.mode>>, ctx,
                             <<"created ", NameStr(Base(path)), " (", ToString(info.size), " bytes)">>),
                         NoErr)

opReadFile(f, dir) ==
    LET ctx == <<"os.ReadFile + content verify">>
        path == Join(dir, TestTxt)
        info == Stat(f, path).info
    IN  IF info.nil THEN PanicRet(f)
        ELSE
        LET before == <<"test.txt size=", ToString(info.size)>>
            rd == ReadFile(f, path)
        IN  IF rd.err # NoErr THEN Ret(f, Res(before, EmptyStr, ctx, EmptyStr), rd.err)
            ELSE IF rd.data # <<"hello nfs">>
                THEN Ret(f, Res(before, EmptyStr, ctx, EmptyStr), <<"content mismatch: got ">> \o rd.data \o <<", want ", "hello nfs">>)
            ELSE Ret(f,
                     Res(before, <<"read ", ToString(Size(rd.data)), " bytes, match=true">>, ctx,
                         <<"read ", ToString(Size(rd.data)), " bytes, content verified">>),
                     NoErr)

\* a stat_file that uses the FileInfo without a look at the error
opStatFileUnchecked(f, dir) ==
    LET ctx == <<"os.Stat metadata check">>
        st == Stat(f, Join(dir, TestTxt))
    IN  IF st.info.nil THEN PanicRet(f)
        ELSE Ret(f,
                 Res(EmptyStr, EmptyStr, ctx,
                     <<"name=", st.info.name, " size=", ToString(st.info.size), " mode=", st.info.mode, " modtime=", "RFC3339">>),
                 NoErr)

opStatFile(f, dir) ==
    LET ctx == <<"os.Stat metadata check">>
        st == Stat(f, Join(dir, TestTxt))
    IN  IF st.err # NoErr THEN Ret(f, Res(EmptyStr, EmptyStr, ctx, EmptyStr), st.err)
        ELSE Ret(f,
                 Res(EmptyStr, EmptyStr, ctx,
                     <<"name=", st.info.name, " size=", ToString(st.info.size), " mode=", st.info.mode, " modtime=", "RFC3339">>),
                 NoErr)

opAppendFile(f, dir) ==
    LET ctx == <<"O_APPEND write">>
        path == Join(dir, TestTxt)
        beforeData == ReadFile(f, path).data
        before == <<"size=", ToString(Size(beforeData)), " content=">> \o beforeData
        op == OpenFile(f, path, FALSE, FALSE, FALSE)
    IN  IF op.err # NoErr THEN Ret(op.fs, Res(before, EmptyStr, ctx, EmptyStr), op.err)
        ELSE
        LET new == <<"\nappended line">>
            wr == FdWrite(op.fs, path, AtEnd, new)
        IN  IF wr.err # NoErr THEN Ret(wr.fs, Res(before, EmptyStr, ctx, EmptyStr), wr.err)
            ELSE
            LET afterData == ReadFile(wr.fs, path).data
            IN  Ret(wr.fs,
                    Res(before, <<"size=", ToString(Size(afterData)), " content=">> \o afterData, ctx,
                        <<"appended ", ToString(Size(new)), " bytes">>),
                    NoErr)

opOverwriteFile(f, dir) ==
    LET ctx == <<"os.WriteFile overwrite + verify">>
        path == Join(dir, TestTxt)
        before == <<"content=">> \o ReadFile(f, path).data
        content == <<"overwritten content">>
        wr == WriteFile(f, path, content, "-rw-r--r--")
    IN  IF wr.err # NoErr THEN Ret(wr.fs, Res(before, EmptyStr, ctx, EmptyStr), wr.err)
        ELSE
        LET rd == ReadFile(wr.fs, path)
        IN  IF rd.err # NoErr
            THEN Ret(wr.fs, Res(before, EmptyStr, ctx, EmptyStr), Wrap("read-back failed: ", rd.err))
            ELSE IF rd.data # content
            THEN Ret(wr.fs, Res(before, EmptyStr, ctx, EmptyStr),
                     <<"content mismatch after overwrite: got ">> \o rd.data)
            ELSE Ret(wr.fs, Res(before, <<"content=">> \o rd.data, ctx, <<"overwritten and verified">>), NoErr)

\* a chmod_file that returns the error of os.Stat
opChmodFileChecked(f, dir) ==
    LET ctx == <<"os.Chmod permission change">>
        path == Join(dir, TestTxt)
        st == Stat(f, path)
    IN  IF st.err # NoErr THEN Ret(f, Res(EmptyStr, EmptyStr, ctx, EmptyStr), st.err)
        ELSE
        LET ch == Chmod(f, path, "-rwxr-xr-x")
        IN  IF ch.err # NoErr THEN Ret(ch.fs, Res(<<"mode=", st.info.mode>>, EmptyStr, ctx, EmptyStr), ch.err)
            ELSE Ret(ch.fs, Res(<<"mode=", st.info.mode>>, EmptyStr, ctx, <<"chmod">>), NoErr)

opChmodFile(f, dir) ==
    LET ctx == <<"os.Chmod permission change">>
        path == Join(dir, TestTxt)
        infoBefore == Stat(f, path).info
    IN  IF infoBefore.nil THEN PanicRet(f)
        ELSE
        LET before == <<"mode=", infoBefore.mode>>
            ch == Chmod(f, path, "-rwxr-xr-x")
        IN  IF ch.err # NoErr THEN Ret(ch.fs, Res(before, EmptyStr, ctx, EmptyStr), ch.err)
            ELSE
            LET infoAfter == Stat(ch.fs, path).info
            IN  IF infoAfter.nil THEN PanicRet(ch.fs)
                ELSE Ret(ch.fs,
                         Res(before, <<"mode=", infoAfter.mode>>, ctx,
                             <<"chmod ", infoBefore.mode, " -> ", infoAfter.mode>>),
                         NoErr)

\* a rename_file that does not rename back
opRenameFileOneWay(f, dir) ==
    LET ctx == <<"os.Rename within same dir">>
        src == Join(dir, TestTxt)
        dst == Join(dir, N("renamed", ".txt"))
        before == <<"test.txt exists=true, renamed.txt exists=false">>
        rn == Rename(f, src, dst)
    IN  IF rn.err # NoErr THEN Ret(rn.fs, Res(before, EmptyStr, ctx, EmptyStr), rn.err)
        ELSE Ret(rn.fs, Res(before, EmptyStr, ctx, <<"renamed">>), NoErr)

opRenameFile(f, dir) ==
    LET ctx == <<"os.Rename within same dir">>
        src == Join(dir, TestTxt)
        dst == Join(dir, N("renamed", ".txt"))
        before == <<"test.txt exists=true, renamed.txt exists=false">>
        rn == Rename(f, src, dst)
    IN  IF rn.err # NoErr THEN Ret(rn.fs, Res(before, EmptyStr, ctx, EmptyStr), rn.err)
        ELSE
        LET after == <<"test.txt exists=", BoolStr(Stat(rn.fs, src).err = NoErr),
                       ", renamed.txt exists=", BoolStr(Stat(rn.fs, dst).err = NoErr)>>
            back == Rename(rn.fs, dst, src)
        IN  IF back.err # NoErr
            THEN Ret(back.fs, Res(before, after, ctx, EmptyStr), Wrap("rename-back failed: ", back.err))
            ELSE Ret(back.fs, Res(before, after, ctx, <<"renamed and renamed back">>), NoErr)

opCopyFile(f, dir) ==
    LET ctx == <<"read src + write dst copy">>
        src == Join(dir, TestTxt)
        dst == Join(dir, N("test-copy", ".txt"))
        before == <<"test-copy.txt exists=false">>
        rd == ReadFile(f, src)
    IN  IF rd.err # NoErr THEN Ret(f, Res(before, EmptyStr, ctx, EmptyStr), rd.err)
        ELSE
        LET wr == WriteFile(f, dst, rd.data, "-rw-r--r--")
        IN  IF wr.err # NoErr THEN Ret(wr.fs, Res(before, EmptyStr, ctx, EmptyStr), wr.err)
            ELSE Ret(wr.fs,
                     Res(before, <<"test-copy.txt exists=true size=", ToString(Size(rd.data))>>, ctx,
                         <<"copied ", ToString(Size(rd.data)), " bytes">>),
                     NoErr)

opSymlink(f, dir) ==
    LET ctx == <<"os.Symlink + os.Readlink">>
        target == Join(dir, TestTxt)
        link == Join(dir, N("test-link", ".txt"))
        before == <<"test-link.txt exists=false">>
        sl == Symlink(f, target, link)
    IN  IF sl.err # NoErr THEN Ret(sl.fs, Res(before, EmptyStr, ctx, EmptyStr), sl.err)
        ELSE
        LET rl == Readlink(sl.fs, link)
        IN  IF rl.err # NoErr
            THEN Ret(sl.fs, Res(before, EmptyStr, ctx, EmptyStr), Wrap("readlink failed: ", rl.err))
            ELSE Ret(sl.fs,
                     Res(before, <<"test-link.txt -> ", NameStr(Base(rl.target))>>, ctx,
                         <<"symlink created and resolved">>),
                     NoErr)

opMkdir(f, dir) ==
    LET ctx == <<"os.Mkdir single dir">>
        path == Join(dir, N("subdir", ""))
        before == <<"subdir/ exists=false">>
        mk == Mkdir(f, path)
    IN  IF mk.err # NoErr THEN Ret(mk.fs, Res(before, EmptyStr, ctx, EmptyStr), mk.err)
        ELSE
        LET info == Stat(mk.fs, path).info
        IN  IF info.nil THEN PanicRet(mk.fs)
            ELSE Ret(mk.fs, Res(before, <<"subdir/ exists=true mode=", info.mode>>, ctx, <<"created subdir/">>), NoErr)

opNestedMkdir(f, dir) ==
    LET ctx == <<"os.MkdirAll 3-level deep">>
        path == dir \o <<N("deep", ""), N("nested", ""), N("dir", "")>>
        before == <<"deep/ exists=false">>
        mk == MkdirAll(f, path)
    IN  IF mk.err # NoErr THEN Ret(mk.fs, Res(before, EmptyStr, ctx, EmptyStr), mk.err)
        ELSE Ret(mk.fs, Res(before, <<"deep/nested/dir/ exists=true">>, ctx, <<"created deep/nested/dir/">>), NoErr)

opCreateInSubdir(f, dir) ==
    LET ctx == <<"write file inside subdir">>
        path == dir \o <<N("subdir", ""), N("subfile", ".txt")>>
        before == <<"subdir/subfile.txt exists=false">>
        wr == WriteFile(f, path, <<"subdir content">>, "-rw-r--r--")
    IN  IF wr.err # NoErr THEN Ret(wr.fs, Res(before, EmptyStr, ctx, EmptyStr), wr.err)
        ELSE
        LET info == Stat(wr.fs, path).info
        IN  IF info.nil THEN PanicRet(wr.fs)
            ELSE Ret(wr.fs,
                     Res(before, <<"subdir/subfile.txt size=", ToString(info.size)>>, ctx,
                         <<"created subdir/subfile.txt">>),
                     NoErr)

opCrossDirRename(f, dir) ==
    LET ctx == <<"os.Rename across directories">>
        src == dir \o <<N("subdir", ""), N("subfile", ".txt")>>
        dst == dir \o <<N("deep", ""), N("moved", ".txt")>>
        before == <<"subdir/subfile.txt -> (exists)">>
        rn == Rename(f, src, dst)
    IN  IF rn.err # NoErr THEN Ret(rn.fs, Res(before, EmptyStr, ctx, EmptyStr), rn.err)
        ELSE
        LET st == Stat(rn.fs, dst)
        IN  IF st.err # NoErr
            THEN Ret(rn.fs, Res(before, EmptyStr, ctx, EmptyStr),
                     Wrap("file missing after cross-dir rename: ", st.err))
            ELSE Ret(rn.fs,
                     Res(before, <<"deep/moved.txt -> (exists)">>, ctx,
                         <<"moved subdir/subfile.txt -> deep/moved.txt">>),
                     NoErr)

\* the names of targets that os.Stat finds under dir, joined with ", "
ExistingOf(f, dir, targets, tail) ==
    JoinNames([i \in 1..Len(SelectSeq(targets, LAMBDA n : Stat(f, Join(dir, n)).err = NoErr)) |->
                 [SelectSeq(targets, LAMBDA n : Stat(f, Join(dir, n)).err = NoErr)[i] EXCEPT !.suf = @ \o tail]])

\* the loop that removes the targets in order and stops at the first error
\* that counts: [fs, err, name]
RECURSIVE RemoveEach(_, _, _, _, _)
RemoveEach(f, dir, targets, i, all) ==
    IF i > Len(targets) THEN [fs |-> f, err |-> NoErr, name |-> ""]
    ELSE LET path == Join(dir, targets[i])
             rm == IF all THEN RemoveAll(f, path) ELSE Remove(f, path)
         IN  IF rm.err # NoErr /\ (all \/ ~IsNotExist(rm.err))
             THEN [fs |-> rm.fs, err |-> rm.err, name |-> NameStr(targets[i])]
             ELSE RemoveEach(rm.fs, dir, targets, i + 1, all)

opDeleteFile(f, dir) ==
    LET ctx == <<"os.Remove file deletion">>
        targets == <<N("test-copy", ".txt"), N("test-link", ".txt")>>
        before == <<"exist: ">> \o ExistingOf(f, dir, targets, "")
        rm == RemoveEach(f, dir, targets, 1, FALSE)
    IN  IF rm.err # NoErr
        THEN Ret(rm.fs, Res(before, EmptyStr, ctx, EmptyStr), <<"delete ", rm.name, ": ">> \o rm.err)
        ELSE
        LET existsAfter == ExistingOf(rm.fs, dir, targets, "")
            after == IF Len(existsAfter) > 0 THEN <<"exist: ">> \o existsAfter ELSE <<"exist: (none)">>
        IN  Ret(rm.fs, Res(before, after, ctx, <<"deleted test-copy.txt and test-link.txt">>), NoErr)

opRmdir(f, dir) ==
    LET ctx == <<"os.RemoveAll recursive">>
        targets == <<N("deep", ""), N("subdir", "")>>
        before == <<"dirs: ">> \o ExistingOf(f, dir, targets, "/")
        rm == RemoveEach(f, dir, targets, 1, TRUE)
    IN  IF rm.err # NoErr
        THEN Ret(rm.fs, Res(before, EmptyStr, ctx, EmptyStr), <<"rmdir ", rm.name, ": ">> \o rm.err)
        ELSE
        LET existsAfter == ExistingOf(rm.fs, dir, targets, "/")
            after == IF Len(existsAfter) > 0 THEN <<"dirs: ">> \o existsAfter ELSE <<"dirs: (none)">>
        IN  Ret(rm.fs, Res(before, after, ctx, <<"removed subdir/ and deep/">>), NoErr)

opLargeFile(f, dir) ==
    LET ctx == <<"1MB write + read-back throughput">>
        path == Join(dir, N("large", ".bin"))
        data == <<Pattern1MB>>
        before == <<"large.bin exists=false">>
        wr == WriteFile(f, path, data, "-rw-r--r--")
    IN  IF wr.err # NoErr THEN Ret(wr.fs, Res(before, EmptyStr, ctx, EmptyStr), wr.err)
        ELSE
        LET rd == ReadFile(wr.fs, path)
        IN  IF rd.err # NoErr
            THEN Ret(wr.fs, Res(before, EmptyStr, ctx, EmptyStr), Wrap("read-back failed: ", rd.err))
            ELSE IF Size(rd.data) # Size(data)
            THEN Ret(wr.fs, Res(before, EmptyStr, ctx, EmptyStr),
                     <<"size mismatch: wrote ", ToString(Size(data)), ", read ", ToString(Size(rd.data))>>)
            ELSE Ret(Remove(wr.fs, path).fs,
                     Res(before, <<"large.bin size=1048576 verified=true">>, ctx,
                         <<"1MB in ", "<duration>", " (", "<speed>", " MB/s)">>),
                     NoErr)

\* the writers of concurrent_writes
NumWriters == 5
WriterFile(idx) == NI("concurrent-", idx, ".txt")
WriterData(idx) == <<"writer ", ToString(idx)>>

\* the goroutines write distinct files: [fs, errs], errs the errors that the
\* writers send to the channel
RECURSIVE WritersFrom(_, _, _, _)
WritersFrom(f, dir, idx, errs) ==
    IF idx >= NumWriters THEN [fs |-> f, errs |-> errs]
    ELSE LET wr == WriteFile(f, Join(dir, WriterFile(idx)), WriterData(idx), "-rw-r--r--")
         IN  WritersFrom(wr.fs, dir, idx + 1, IF wr.err # NoErr THEN Append(errs, wr.err) ELSE errs)

\* the verification loop: [fs, err]
RECURSIVE VerifyFrom(_, _, _)
VerifyFrom(f, dir, i) ==
    IF i >= NumWriters THEN R(f, NoErr)
    ELSE LET path == Join(dir, WriterFile(i))
             rd == ReadFile(f, path)
         IN  IF rd.err # NoErr THEN R(f, <<"verify writer ", ToString(i), ": ">> \o rd.err)
             ELSE IF rd.data # WriterData(i)
             THEN R(f, <<"writer ", ToString(i), " content mismatch: got ">> \o rd.data)
             ELSE VerifyFrom(Remove(f, path).fs, dir, i + 1)

\* the error received first from the channel is the one of the writer that
\* failed first; which writer that is depends on the scheduler, and its number
\* reads "<idx>" here
opConcurrentWrites(f, dir) ==
    LET ctx == <<"5 goroutines writing simultaneously">>
        ws == WritersFrom(f, dir, 0, <<>>)
    IN  IF ws.errs # <<>>
        THEN Ret(ws.fs, Res(EmptyStr, EmptyStr, ctx, EmptyStr), <<"writer ", "<idx>", ": ">> \o ws.errs[1])
        ELSE
        LET v == VerifyFrom(ws.fs, dir, 0)
        IN  IF v.err # NoErr THEN Ret(v.fs, Res(EmptyStr, EmptyStr, ctx, EmptyStr), v.err)
            ELSE Ret(v.fs, Res(EmptyStr, EmptyStr, ctx,
                               <<ToString(NumWriters), " concurrent writes verified">>), NoErr)

opFileLock(f, dir) ==
    LET ctx == <<"WriteAt with held fd">>
        path == Join(dir, N("locktest", ".txt"))
        original == <<"l", "o", "c", "k", " ", "t", "e", "s", "t">>
        wr == WriteFile(f, path, original, "-rw-r--r--")
    IN  IF wr.err # NoErr THEN Ret(wr.fs, Res(EmptyStr, EmptyStr, ctx, EmptyStr), wr.err)
        ELSE
        LET op == OpenFile(wr.fs, path, FALSE, FALSE, FALSE)
        IN  IF op.err # NoErr THEN Ret(op.fs, Res(EmptyStr, EmptyStr, ctx, EmptyStr), op.err)
            ELSE
            LET before == <<"content=">> \o original
                wa == FdWrite(op.fs, path, 0, <<"l", "o", "c", "k", "e", "d">>)
            IN  IF wa.err # NoErr
                THEN Ret(wa.fs, Res(before, EmptyStr, ctx, EmptyStr), Wrap("write-at with open fd: ", wa.err))
                ELSE Ret(Remove(wa.fs, path).fs,
                         Res(before, <<"content=">> \o ReadFile(wa.fs, path).data, ctx, <<"write-at succeeded">>),
                         NoErr)

\* a truncate_file that shrinks test.txt, the file of create_file, where the
\* source writes a file of its own first
opTruncateFileOfTestTxt(f, dir) ==
    LET ctx == <<"os.Truncate shrink file">>
        tr == Truncate(f, Join(dir, TestTxt), 10)
    IN  IF tr.err # NoErr THEN Ret(tr.fs, Res(EmptyStr, EmptyStr, ctx, EmptyStr), tr.err)
        ELSE Ret(tr.fs, Res(EmptyStr, EmptyStr, ctx, <<"truncated to 10 bytes">>), NoErr)

opTruncateFile(f, dir) ==
    LET ctx == <<"os.Truncate shrink file">>
        path == Join(dir, N("truncate-test", ".txt"))
        original == <<"t", "h", "i", "s", " ", "i", "s", " ", "a", " ", "l", "o", "n", "g", " ",
                      "s", "t", "r", "i", "n", "g", " ", "f", "o", "r", " ",
                      "t", "r", "u", "n", "c", "a", "t", "i", "o", "n">>
        wr == WriteFile(f, path, original, "-rw-r--r--")
    IN  IF wr.err # NoErr THEN Ret(wr.fs, Res(EmptyStr, EmptyStr, ctx, EmptyStr), wr.err)
        ELSE
        LET before == <<"size=", ToString(Size(original)), " content=">> \o original
            tr == Truncate(wr.fs, path, 10)
        IN  IF tr.err # NoErr THEN Ret(tr.fs, Res(before, EmptyStr, ctx, EmptyStr), tr.err)
            ELSE
            LET rd == ReadFile(tr.fs, path)
            IN  IF rd.err # NoErr
                THEN Ret(tr.fs, Res(before, EmptyStr, ctx, EmptyStr), Wrap("read after truncate: ", rd.err))
                ELSE
                LET removed == Remove(tr.fs, path).fs
                IN  IF Size(rd.data) # 10
                    THEN Ret(removed, Res(before, EmptyStr, ctx, EmptyStr),
                             <<"truncate failed: got ", ToString(Size(rd.data)), " bytes, want 10">>)
                    ELSE Ret(removed,
                             Res(before, <<"size=", ToString(Size(rd.data)), " content=">> \o rd.data, ctx,
                                 <<"truncated to ", ToString(Size(rd.data)), " bytes">>),
                             NoErr)

\* a hardlink that leaves its link behind
opHardlinkKept(f, dir) ==
    LET ctx == <<"os.Link hard link">>
        src == Join(dir, TestTxt)
        dst == Join(dir, N("test-hardlink", ".txt"))
        before == <<"test-hardlink.txt exists=false">>
        ln == Link(f, src, dst)
    IN  IF ln.err # NoErr THEN Ret(ln.fs, Res(before, EmptyStr, ctx, EmptyStr), ln.err)
        ELSE Ret(ln.fs, Res(before, EmptyStr, ctx, <<"hardlink created, content matches">>), NoErr)

opHardlink(f, dir) ==
    LET ctx == <<"os.Link hard link">>
        src == Join(dir, TestTxt)
        dst == Join(dir, N("test-hardlink", ".txt"))
        before == <<"test-hardlink.txt exists=false">>
        ln == Link(f, src, dst)
    IN  IF ln.err # NoErr THEN Ret(ln.fs, Res(before, EmptyStr, ctx, EmptyStr), ln.err)
        ELSE
        LET srcData == ReadFile(ln.fs, src).data
            dstData == ReadFile(ln.fs, dst).data
            removed == Remove(ln.fs, dst).fs
        IN  IF srcData # dstData
            THEN Ret(removed, Res(before, EmptyStr, ctx, EmptyStr), <<"hardlink content mismatch">>)
            ELSE Ret(removed,
                     Res(before, <<"test-hardlink.txt content matches (", ToString(Size(srcData)), " bytes)">>, ctx,
                         <<"hardlink created, content matches">>),
                     NoErr)

opMkfifo(f, dir) ==
    LET ctx == <<"syscall.Mkfifo named pipe">>
        path == Join(dir, N("test", ".fifo"))
        before == <<"test.fifo exists=false">>
        mk == Mkfifo(f, path)
    IN  IF mk.err # NoErr THEN Ret(mk.fs, Res(before, EmptyStr, ctx, EmptyStr), mk.err)
        ELSE
        LET st == Lstat(mk.fs, path)
        IN  IF st.err # NoErr THEN Ret(mk.fs, Res(before, EmptyStr, ctx, EmptyStr), st.err)
            ELSE Ret(Remove(mk.fs, path).fs,
                     Res(before, <<"test.fifo mode=", st.info.mode>>, ctx, <<"fifo created">>), NoErr)

opWriteBinary(f, dir) ==
    LET ctx == <<"write all 256 byte values, read back, compare">>
        path == Join(dir, N("binary", ".bin"))
        data == <<AllBytes>>
        before == <<"binary.bin exists=false">>
        wr == WriteFile(f, path, data, "-rw-r--r--")
    IN  IF wr.err # NoErr THEN Ret(wr.fs, Res(before, EmptyStr, ctx, EmptyStr), wr.err)
        ELSE
        LET rd == ReadFile(wr.fs, path)
        IN  IF rd.err # NoErr
            THEN Ret(wr.fs, Res(before, EmptyStr, ctx, EmptyStr), Wrap("read-back failed: ", rd.err))
            ELSE IF rd.data # data
            THEN Ret(wr.fs, Res(before, EmptyStr, ctx, EmptyStr),
                     <<"binary data corruption: wrote ", ToString(Size(data)), " bytes, read ",
                       ToString(Size(rd.data)), " bytes">>)
            ELSE Ret(Remove(wr.fs, path).fs,
                     Res(before, <<"binary.bin size=256 match=true">>, ctx,
                         <<"256-byte binary round-trip verified">>),
                     NoErr)

\* the modification times that os.Stat reports behind the first and behind
\* the second write of mtime_check, in units of the resolution of the clock
\* of the filesystem: the second write is 100ms later, which is a later
\* time unless the resolution is coarser ("mtime" in broken) or the clock has
\* stepped back ("clock" in broken)
Mtime1 == 1
Mtime2 == IF ~Ok("clock") THEN 0 ELSE IF ~Ok("mtime") THEN 1 ELSE 2

\* an mtime_check that takes a time that is not earlier for a later one
MtimeNotBefore == Mtime2 >= Mtime1

\* mtime2.After(mtime1)
MtimeAdvanced == Mtime2 > Mtime1

opMtimeCheck(f, dir) ==
    LET ctx == <<"verify mtime advances after write">>
        path == Join(dir, N("mtime-test", ".txt"))
        w1 == WriteFile(f, path, <<"before">>, "-rw-r--r--")
    IN  IF w1.err # NoErr THEN Ret(w1.fs, Res(EmptyStr, EmptyStr, ctx, EmptyStr), w1.err)
        ELSE IF Stat(w1.fs, path).info.nil THEN PanicRet(w1.fs)
        ELSE
        LET before == <<"mtime=", ToString(Mtime1)>>
            w2 == WriteFile(w1.fs, path, <<"after modification">>, "-rw-r--r--")
        IN  IF w2.err # NoErr THEN Ret(w2.fs, Res(before, EmptyStr, ctx, EmptyStr), w2.err)
            ELSE IF Stat(w2.fs, path).info.nil THEN PanicRet(w2.fs)
            ELSE
            LET after == <<"mtime=", ToString(Mtime2)>>
                removed == Remove(w2.fs, path).fs
            IN  IF ~MtimeAdvanced
                THEN Ret(removed, Res(before, after, ctx, EmptyStr), <<"mtime did not advance">>)
                ELSE Ret(removed, Res(before, after, ctx, <<"mtime advanced">>), NoErr)

\* the files of readdir_many
ReaddirCount == 50
ManyFile(i) == NI("file-", i, ".txt")

\* the loop that creates the files: [fs, err, i], i the file whose creation
\* failed. All files go to the same directory, so the first os.WriteFile
\* decides for all of them.
CreateManyFrom(f, subdir, i) ==
    LET wr == WriteFile(f, Join(subdir, ManyFile(i)), <<"file ", ToString(i)>>, "-rw-r--r--")
        files == {Join(subdir, ManyFile(k)) : k \in i..(ReaddirCount - 1)}
    IN  IF wr.err # NoErr THEN [fs |-> wr.fs, err |-> wr.err, i |-> i]
        ELSE [fs |-> [q \in files |-> FileNode(<<"file ", ToString(Base(q).id)>>, "-rw-r--r--")] @@ f,
              err |-> NoErr, i |-> ReaddirCount]

opReaddirMany(f, dir) ==
    LET ctx == <<"create 50 files + os.ReadDir">>
        subdir == Join(dir, N("readdir-test", ""))
        mk == MkdirAll(f, subdir)
    IN  IF mk.err # NoErr THEN Ret(mk.fs, Res(EmptyStr, EmptyStr, ctx, EmptyStr), mk.err)
        ELSE
        LET cr == CreateManyFrom(mk.fs, subdir, 0)
        IN  IF cr.err # NoErr
            THEN Ret(cr.fs, Res(EmptyStr, EmptyStr, ctx, EmptyStr),
                     <<"create file ", ToString(cr.i), ": ">> \o cr.err)
            ELSE
            LET before == <<"readdir-test/ files=", ToString(ReaddirCount)>>
                rd == ReadDir(cr.fs, subdir)
            IN  IF rd.err # NoErr THEN Ret(cr.fs, Res(before, EmptyStr, ctx, EmptyStr), Wrap("readdir: ", rd.err))
                ELSE
                LET after == <<"readdir returned ", ToString(Len(rd.entries)), " entries">>
                    removed == RemoveAll(cr.fs, subdir).fs
                IN  IF Len(rd.entries) # ReaddirCount
                    THEN Ret(removed, Res(before, after, ctx, EmptyStr),
                             <<"readdir returned ", ToString(Len(rd.entries)), " entries, want ",
                               ToString(ReaddirCount)>>)
                    ELSE Ret(removed,
                             Res(before, after, ctx, <<"created and listed ", ToString(ReaddirCount), " files">>),
                             NoErr)

\* f.Seek
Seek == IF Ok("Seek") THEN NoErr ELSE EIO

\* f.ReadAt of n one-byte tokens at offset off, behind the hole of a sparse
\* file: the bytes read, zero bytes when the read fails
ZeroByte == "<0>"
ReadAt(f, p, off, n) ==
    IF ~Ok("ReadAt") \/ ~Exists(f, p) \/ Size(f[p].data) < off + n \/ f[p].data[1] # Hole1MB
    THEN [k \in 1..n |-> ZeroByte]
    ELSE SubSeq(f[p].data, 2, n + 1)

opSparseWrite(f, dir) ==
    LET ctx == <<"seek to 1MB offset, write 16 bytes">>
        path == Join(dir, N("sparse", ".bin"))
        before == <<"sparse.bin exists=false">>
        cr == OpenFile(f, path, TRUE, FALSE, TRUE)
    IN  IF cr.err # NoErr THEN Ret(cr.fs, Res(before, EmptyStr, ctx, EmptyStr), cr.err)
        ELSE IF Seek # NoErr THEN Ret(cr.fs, Res(before, EmptyStr, ctx, EmptyStr), Wrap("seek: ", Seek))
        ELSE
        LET offset == 1048576
            payload == <<"s", "p", "a", "r", "s", "e", " ", "d", "a", "t", "a", " ", "h", "e", "r", "e">>
            wr == FdWrite(cr.fs, path, offset, payload)
        IN  IF wr.err # NoErr
            THEN Ret(wr.fs, Res(before, EmptyStr, ctx, EmptyStr), Wrap("write at offset: ", wr.err))
            ELSE
            LET info == Stat(wr.fs, path).info
                buf == ReadAt(wr.fs, path, offset, Len(payload))
                removed == Remove(wr.fs, path).fs
            IN  IF info.nil THEN PanicRet(removed)
                ELSE
                LET after == <<"sparse.bin logical_size=", ToString(info.size)>>
                IN  IF buf # payload
                    THEN Ret(removed, Res(before, after, ctx, EmptyStr), <<"sparse read mismatch: got ">> \o buf)
                    ELSE Ret(removed,
                             Res(before, after, ctx,
                                 <<"wrote ", ToString(Len(payload)), " bytes at offset ", ToString(offset)>>),
                             NoErr)

\* os.CreateTemp(dir, "nfs-test-*.tmp"): the random part of the name reads 0
TempName == NI("nfs-test-", 0, ".tmp")
CreateTemp(f, dir) ==
    IF ~Ok("CreateTemp") THEN R(f, EIO)
    ELSE IF ~IsDirAt(f, dir) THEN R(f, ENOENT)
    ELSE R(Put(f, Join(dir, TempName), FileNode(<<>>, "-rw-------")), NoErr)

opTempFile(f, dir) ==
    LET ctx == <<"os.CreateTemp on NFS (not /tmp)">>
        before == <<"target dir=", "<dir>", " (NFS mount, not /tmp)">>
        ct == CreateTemp(f, dir)
    IN  IF ct.err # NoErr THEN Ret(ct.fs, Res(before, EmptyStr, ctx, EmptyStr), ct.err)
        ELSE
        LET name == Join(dir, TempName)
            wr == FdWrite(ct.fs, name, AtEnd, <<"temp file content">>)
        IN  IF wr.err # NoErr THEN Ret(wr.fs, Res(before, EmptyStr, ctx, EmptyStr), wr.err)
            ELSE
            LET rd == ReadFile(wr.fs, name)
            IN  IF rd.err # NoErr
                THEN Ret(wr.fs, Res(before, EmptyStr, ctx, EmptyStr), Wrap("read temp file: ", rd.err))
                ELSE Ret(Remove(wr.fs, name).fs,
                         Res(before, <<"created ", NameStr(TempName), " (", ToString(Size(rd.data)), " bytes)">>, ctx,
                             <<"temp file ", NameStr(TempName), ": ", ToString(Size(rd.data)), " bytes">>),
                         NoErr)

\* an exclusive_create that does not look at the second create
opExclusiveCreateNoCheck(f, dir) ==
    LET ctx == <<"O_CREATE|O_EXCL atomic create">>
        path == Join(dir, N("exclusive", ".txt"))
        before == <<"exclusive.txt exists=false">>
        first == OpenFile(Remove(f, path).fs, path, TRUE, TRUE, FALSE)
    IN  IF first.err # NoErr THEN Ret(first.fs, Res(before, EmptyStr, ctx, EmptyStr), first.err)
        ELSE Ret(Remove(FdWrite(first.fs, path, AtEnd, <<"exclusive create">>).fs, path).fs,
                 Res(before, <<"exclusive.txt exists=true, 2nd O_EXCL rejected">>, ctx,
                     <<"O_EXCL create succeeded, duplicate correctly rejected">>),
                 NoErr)

opExclusiveCreate(f, dir) ==
    LET ctx == <<"O_CREATE|O_EXCL atomic create">>
        path == Join(dir, N("exclusive", ".txt"))
        before == <<"exclusive.txt exists=false">>
        first == OpenFile(Remove(f, path).fs, path, TRUE, TRUE, FALSE)
    IN  IF first.err # NoErr THEN Ret(first.fs, Res(before, EmptyStr, ctx, EmptyStr), first.err)
        ELSE
        LET written == FdWrite(first.fs, path, AtEnd, <<"exclusive create">>).fs
            second == OpenFile(written, path, TRUE, TRUE, FALSE)
        IN  IF second.err = NoErr
            THEN Ret(Remove(second.fs, path).fs, Res(before, EmptyStr, ctx, EmptyStr),
                     <<"O_EXCL did not reject duplicate create">>)
            ELSE Ret(Remove(second.fs, path).fs,
                     Res(before, <<"exclusive.txt exists=true, 2nd O_EXCL rejected">>, ctx,
                         <<"O_EXCL create succeeded, duplicate correctly rejected">>),
                     NoErr)

\* a seek_read_write that does not compare what it reads back
opSeekReadWriteNoVerify(f, dir) ==
    LET ctx == <<"seek to offset 5, overwrite, verify">>
        path == Join(dir, N("seektest", ".txt"))
        original == <<"A", "A", "A", "A", "A", "A", "A", "A", "A", "A">>
        wr == WriteFile(f, path, original, "-rw-r--r--")
    IN  IF wr.err # NoErr THEN Ret(wr.fs, Res(EmptyStr, EmptyStr, ctx, EmptyStr), wr.err)
        ELSE
        LET before == <<"content=">> \o original
            w2 == FdWrite(wr.fs, path, 5, <<"B", "B", "B", "B", "B">>)
            rd == ReadFile(w2.fs, path)
        IN  IF w2.err # NoErr \/ rd.err # NoErr
            THEN Ret(w2.fs, Res(before, EmptyStr, ctx, EmptyStr), Wrap("write at offset: ", w2.err))
            ELSE Ret(Remove(w2.fs, path).fs,
                     Res(before, <<"content=">> \o rd.data, ctx, <<"seek write verified: ">> \o rd.data), NoErr)

opSeekReadWrite(f, dir) ==
    LET ctx == <<"seek to offset 5, overwrite, verify">>
        path == Join(dir, N("seektest", ".txt"))
        original == <<"A", "A", "A", "A", "A", "A", "A", "A", "A", "A">>
        wr == WriteFile(f, path, original, "-rw-r--r--")
    IN  IF wr.err # NoErr THEN Ret(wr.fs, Res(EmptyStr, EmptyStr, ctx, EmptyStr), wr.err)
        ELSE
        LET before == <<"content=">> \o original
            op == OpenFile(wr.fs, path, FALSE, FALSE, FALSE)
        IN  IF op.err # NoErr THEN Ret(op.fs, Res(before, EmptyStr, ctx, EmptyStr), op.err)
            ELSE IF Seek # NoErr THEN Ret(op.fs, Res(before, EmptyStr, ctx, EmptyStr), Wrap("seek: ", Seek))
            ELSE
            LET w2 == FdWrite(op.fs, path, 5, <<"B", "B", "B", "B", "B">>)
            IN  IF w2.err # NoErr
                THEN Ret(w2.fs, Res(before, EmptyStr, ctx, EmptyStr), Wrap("write at offset: ", w2.err))
                ELSE
                LET rd == ReadFile(w2.fs, path)
                IN  IF rd.err # NoErr
                    THEN Ret(w2.fs, Res(before, EmptyStr, ctx, EmptyStr), Wrap("read-back: ", rd.err))
                    ELSE
                    LET removed == Remove(w2.fs, path).fs
                        after == <<"content=">> \o rd.data
                        expected == <<"A", "A", "A", "A", "A", "B", "B", "B", "B", "B">>
                    IN  IF rd.data # expected
                        THEN Ret(removed, Res(before, after, ctx, EmptyStr),
                                 <<"seek write mismatch: got ">> \o rd.data \o <<", want ">> \o expected)
                        ELSE Ret(removed, Res(before, after, ctx, <<"seek write verified: ">> \o rd.data), NoErr)

----------------------------------------------------------------------------
(* Shared-specific operations *)

\* a marker name that does not hold the run id
MarkerNameFixed(runID) == NI("marker-", 0, ".txt")

MarkerName(runID) == NI("marker-", runID, ".txt")

\* a marker content without the newline between its two fields
MarkerContentOneLine(runID) == <<"run_id=", ToString(runID), " ", "timestamp=", "RFC3339", "\n">>

\* the time.Now() of a marker is not modelled: every timestamp reads "RFC3339"
MarkerContent(runID) == <<"run_id=", ToString(runID), "\n", "timestamp=", "RFC3339", "\n">>

IsSpace(tok) == tok \in {"\n", " ", "\t", "\r"}

RECURSIVE TrimLeft(_)
TrimLeft(data) == IF data # <<>> /\ IsSpace(data[1]) THEN TrimLeft(Tail(data)) ELSE data

RECURSIVE TrimRight(_)
TrimRight(data) ==
    IF data # <<>> /\ IsSpace(data[Len(data)]) THEN TrimRight(SubSeq(data, 1, Len(data) - 1)) ELSE data

\* strings.TrimSpace
TrimSpace(data) == TrimRight(TrimLeft(data))

\* a write_marker that relies on the shared root being there
opWriteMarkerNoMkdir(f, dir, runID) ==
    LET ctx == <<"write marker file for cross-run visibility">>
        markerName == MarkerName(runID)
        before == <<NameStr(markerName), " exists=false">>
        wr == WriteFile(f, Join(dir, markerName), MarkerContent(runID), "-rw-r--r--")
    IN  IF wr.err # NoErr THEN Ret(wr.fs, Res(before, EmptyStr, ctx, EmptyStr), wr.err)
        ELSE Ret(wr.fs, Res(before, EmptyStr, ctx, <<"wrote marker ", NameStr(markerName)>>), NoErr)

opWriteMarker(f, dir, runID) ==
    LET ctx == <<"write marker file for cross-run visibility">>
        mk == MkdirAll(f, dir)
    IN  IF mk.err # NoErr THEN Ret(mk.fs, Res(EmptyStr, EmptyStr, ctx, EmptyStr), mk.err)
        ELSE
        LET markerName == MarkerName(runID)
            path == Join(dir, markerName)
            content == MarkerContent(runID)
            before == <<NameStr(markerName), " exists=false">>
            wr == WriteFile(mk.fs, path, content, "-rw-r--r--")
        IN  IF wr.err # NoErr THEN Ret(wr.fs, Res(before, EmptyStr, ctx, EmptyStr), wr.err)
            ELSE Ret(wr.fs,
                     Res(before, <<NameStr(markerName), " exists=true (", ToString(Size(content)), " bytes)">>, ctx,
                         <<"wrote marker ", NameStr(markerName)>>),
                     NoErr)

\* a list_existing that reports nothing when it succeeds
opListExistingNoDetails(f, dir) ==
    LET ctx == <<"list shared dir entries (all runs)">>
        rd == ReadDir(f, dir)
    IN  IF rd.err # NoErr THEN Ret(f, Res(EmptyStr, EmptyStr, ctx, EmptyStr), rd.err)
        ELSE Ret(f, Res(EmptyStr, EmptyStr, ctx, EmptyStr), NoErr)

opListExisting(f, dir) ==
    LET ctx == <<"list shared dir entries (all runs)">>
        rd == ReadDir(f, dir)
    IN  IF rd.err # NoErr THEN Ret(f, Res(EmptyStr, EmptyStr, ctx, EmptyStr), rd.err)
        ELSE Ret(f,
                 Res(EmptyStr, EmptyStr, ctx,
                     <<ToString(Len(rd.entries)), " entries: ">> \o JoinNames(rd.entries)),
                 NoErr)

IsMarkerName(e) == HasPrefix(e, "marker-") /\ HasSuffix(e, ".txt")

opReadCrossRun(f, dir) ==
    LET ctx == <<"read markers from previous test runs">>
        rd == ReadDir(f, dir)
    IN  IF rd.err # NoErr THEN Ret(f, Res(EmptyStr, EmptyStr, ctx, EmptyStr), rd.err)
        ELSE
        LET markers == SelectSeq(rd.entries, IsMarkerName)
        IN  IF Len(markers) = 0
            THEN Ret(f, Res(EmptyStr, EmptyStr, ctx, <<"no previous markers found (first run)">>), NoErr)
            ELSE
            LET last == markers[Len(markers)]
                rf == ReadFile(f, Join(dir, last))
            IN  IF rf.err # NoErr
                THEN Ret(f, Res(EmptyStr, EmptyStr, ctx, EmptyStr),
                         <<"read marker ", NameStr(last), ": ">> \o rf.err)
                ELSE Ret(f,
                         Res(EmptyStr, EmptyStr, ctx,
                             <<"read marker ", NameStr(last), ": ">> \o TrimSpace(rf.data)
                                 \o <<" (total markers: ", ToString(Len(markers)), ")">>),
                         NoErr)

----------------------------------------------------------------------------
(* The catalogues *)

NoRun == 0
Op(name, fn) == [Name |-> name, Fn |-> fn, runID |-> NoRun]

\* a catalogue in which delete_file and copy_file have changed places: the copy
\* is deleted before it is made
coreOpsDeleteBeforeCopy == <<
    Op("create_file", "opCreateFile"),
    Op("read_file", "opReadFile"),
    Op("stat_file", "opStatFile"),
    Op("append_file", "opAppendFile"),
    Op("overwrite_file", "opOverwriteFile"),
    Op("chmod_file", "opChmodFile"),
    Op("rename_file", "opRenameFile"),
    Op("delete_file", "opDeleteFile"),
    Op("symlink", "opSymlink"),
    Op("mkdir", "opMkdir"),
    Op("nested_mkdir", "opNestedMkdir"),
    Op("create_in_subdir", "opCreateInSubdir"),
    Op("cross_dir_rename", "opCrossDirRename"),
    Op("copy_file", "opCopyFile"),
    Op("rmdir", "opRmdir"),
    Op("large_file_1mb", "opLargeFile"),
    Op("concurrent_writes", "opConcurrentWrites"),
    Op("file_lock", "opFileLock"),
    Op("truncate_file", "opTruncateFile"),
    Op("hardlink", "opHardlink"),
    Op("mkfifo", "opMkfifo"),
    Op("write_binary", "opWriteBinary"),
    Op("mtime_check", "opMtimeCheck"),
    Op("readdir_many", "opReaddirMany"),
    Op("sparse_write", "opSparseWrite"),
    Op("temp_file", "opTempFile"),
    Op("exclusive_create", "opExclusiveCreate"),
    Op("seek_read_write", "opSeekReadWrite")
    >>

\* a catalogue that reads test.txt before it creates it
coreOpsReadFirst == <<
    Op("read_file", "opReadFile"),
    Op("create_file", "opCreateFile"),
    Op("stat_file", "opStatFile"),
    Op("append_file", "opAppendFile"),
    Op("overwrite_file", "opOverwriteFile"),
    Op("chmod_file", "opChmodFile"),
    Op("rename_file", "opRenameFile"),
    Op("copy_file", "opCopyFile"),
    Op("symlink", "opSymlink"),
    Op("mkdir", "opMkdir"),
    Op("nested_mkdir", "opNestedMkdir"),
    Op("create_in_subdir", "opCreateInSubdir"),
    Op("cross_dir_rename", "opCrossDirRename"),
    Op("delete_file", "opDeleteFile"),
    Op("rmdir", "opRmdir"),
    Op("large_file_1mb", "opLargeFile"),
    Op("concurrent_writes", "opConcurrentWrites"),
    Op("file_lock", "opFileLock"),
    Op("truncate_file", "opTruncateFile"),
    Op("hardlink", "opHardlink"),
    Op("mkfifo", "opMkfifo"),
    Op("write_binary", "opWriteBinary"),
    Op("mtime_check", "opMtimeCheck"),
    Op("readdir_many", "opReaddirMany"),
    Op("sparse_write", "opSparseWrite"),
    Op("temp_file", "opTempFile"),
    Op("exclusive_create", "opExclusiveCreate"),
    Op("seek_read_write", "opSeekReadWrite")
    >>

coreOps == <<
    Op("create_file", "opCreateFile"),
    Op("read_file", "opReadFile"),
    Op("stat_file", "opStatFile"),
    Op("append_file", "opAppendFile"),
    Op("overwrite_file", "opOverwriteFile"),
    Op("chmod_file", "opChmodFile"),
    Op("rename_file", "opRenameFile"),
    Op("copy_file", "opCopyFile"),
    Op("symlink", "opSymlink"),
    Op("mkdir", "opMkdir"),
    Op("nested_mkdir", "opNestedMkdir"),
    Op("create_in_subdir", "opCreateInSubdir"),
    Op("cross_dir_rename", "opCrossDirRename"),
    Op("delete_file", "opDeleteFile"),
    Op("rmdir", "opRmdir"),
    Op("large_file_1mb", "opLargeFile"),
    Op("concurrent_writes", "opConcurrentWrites"),
    Op("file_lock", "opFileLock"),
    Op("truncate_file", "opTruncateFile"),
    Op("hardlink", "opHardlink"),
    Op("mkfifo", "opMkfifo"),
    Op("write_binary", "opWriteBinary"),
    Op("mtime_check", "opMtimeCheck"),
    Op("readdir_many", "opReaddirMany"),
    Op("sparse_write", "opSparseWrite"),
    Op("temp_file", "opTempFile"),
    Op("exclusive_create", "opExclusiveCreate"),
    Op("seek_read_write", "opSeekReadWrite")
    >>

sharedOps(runID) == <<
    [Name |-> "write_marker", Fn |-> "opWriteMarker", runID |-> runID],
    Op("list_existing", "opListExisting"),
    Op("read_cross_run", "opReadCrossRun")
    >>

\* o.Fn(dir)
Call(o, f, dir) ==
    CASE o.Fn = "opCreateFile" -> opCreateFile(f, dir)
      [] o.Fn = "opReadFile" -> opReadFile(f, dir)
      [] o.Fn = "opStatFile" -> opStatFile(f, dir)
      [] o.Fn = "opAppendFile" -> opAppendFile(f, dir)
      [] o.Fn = "opOverwriteFile" -> opOverwriteFile(f, dir)
      [] o.Fn = "opChmodFile" -> opChmodFile(f, dir)
      [] o.Fn = "opRenameFile" -> opRenameFile(f, dir)
      [] o.Fn = "opCopyFile" -> opCopyFile(f, dir)
      [] o.Fn = "opSymlink" -> opSymlink(f, dir)
      [] o.Fn = "opMkdir" -> opMkdir(f, dir)
      [] o.Fn = "opNestedMkdir" -> opNestedMkdir(f, dir)
      [] o.Fn = "opCreateInSubdir" -> opCreateInSubdir(f, dir)
      [] o.Fn = "opCrossDirRename" -> opCrossDirRename(f, dir)
      [] o.Fn = "opDeleteFile" -> opDeleteFile(f, dir)
      [] o.Fn = "opRmdir" -> opRmdir(f, dir)
      [] o.Fn = "opLargeFile" -> opLargeFile(f, dir)
      [] o.Fn = "opConcurrentWrites" -> opConcurrentWrites(f, dir)
      [] o.Fn = "opFileLock" -> opFileLock(f, dir)
      [] o.Fn = "opTruncateFile" -> opTruncateFile(f, dir)
      [] o.Fn = "opHardlink" -> opHardlink(f, dir)
      [] o.Fn = "opMkfifo" -> opMkfifo(f, dir)
      [] o.Fn = "opWriteBinary" -> opWriteBinary(f, dir)
      [] o.Fn = "opMtimeCheck" -> opMtimeCheck(f, dir)
      [] o.Fn = "opReaddirMany" -> opReaddirMany(f, dir)
      [] o.Fn = "opSparseWrite" -> opSparseWrite(f, dir)
      [] o.Fn = "opTempFile" -> opTempFile(f, dir)
      [] o.Fn = "opExclusiveCreate" -> opExclusiveCreate(f, dir)
      [] o.Fn = "opSeekReadWrite" -> opSeekReadWrite(f, dir)
      [] o.Fn = "opWriteMarker" -> opWriteMarker(f, dir, o.runID)
      [] o.Fn = "opListExisting" -> opListExisting(f, dir)
      [] o.Fn = "opReadCrossRun" -> opReadCrossRun(f, dir)

----------------------------------------------------------------------------
(* The execution engine *)

\* an iteration without the deferred recover: the panic of a probe leaves it
runOpNoRecover(o, f, dir) ==
    LET out == Call(o, f, dir)
    IN  IF out.panicked
        THEN [fs |-> out.fs, escaped |-> TRUE,
              tr |-> [Name |-> o.Name, Pass |-> FALSE, Error |-> EmptyStr,
                      Before |-> EmptyStr, After |-> EmptyStr, Context |-> EmptyStr, Details |-> EmptyStr]]
        ELSE [fs |-> out.fs, escaped |-> FALSE,
              tr |-> [Name |-> o.Name, Pass |-> (out.err = NoErr), Error |-> out.err,
                      Before |-> out.res.Before, After |-> out.res.After,
                      Context |-> out.res.Context, Details |-> out.res.Details]]

\* the TestResult of a probe that ended with out: the assignments behind o.Fn,
\* or those of the deferred recover. escaped tells that a panic left the closure.
resultOf(name, out) ==
    IF out.panicked
    THEN [fs |-> out.fs, escaped |-> FALSE,
          tr |-> [Name |-> name, Pass |-> FALSE, Error |-> <<"panic: ", out.pval>>,
                  Before |-> EmptyStr, After |-> EmptyStr, Context |-> EmptyStr, Details |-> EmptyStr]]
    ELSE [fs |-> out.fs, escaped |-> FALSE,
          tr |-> [Name |-> name, Pass |-> (out.err = NoErr), Error |-> out.err,
                  Before |-> out.res.Before, After |-> out.res.After,
                  Context |-> out.res.Context, Details |-> out.res.Details]]

\* one iteration of the loop of runOps: the probe runs under a deferred recover
runOp(o, f, dir) == resultOf(o.Name, Call(o, f, dir))

\* a loop that panics again with what it has recovered
RECURSIVE runOpsFromRethrow(_, _, _, _, _)
runOpsFromRethrow(f, dir, ops, i, results) ==
    IF i > Len(ops) THEN [fs |-> f, results |-> results, escaped |-> FALSE]
    ELSE LET step == runOp(ops[i], f, dir)
         IN  IF StrHasPrefix(step.tr.Error, "panic: ")
             THEN [fs |-> step.fs, results |-> results, escaped |-> TRUE]
             ELSE runOpsFromRethrow(step.fs, dir, ops, i + 1, Append(results, step.tr))

\* the loop of runOps from probe i on; a panic that escapes ends it
RECURSIVE runOpsFrom(_, _, _, _, _)

\* results = append(results, tr), and the rest of the loop behind probe i
runOpsBehind(step, dir, ops, i, results) ==
    IF step.escaped THEN [fs |-> step.fs, results |-> results, escaped |-> TRUE]
    ELSE runOpsFrom(step.fs, dir, ops, i + 1, Append(results, step.tr))

runOpsFrom(f, dir, ops, i, results) ==
    IF i > Len(ops) THEN [fs |-> f, results |-> results, escaped |-> FALSE]
    ELSE runOpsBehind(runOp(ops[i], f, dir), dir, ops, i, results)

runOps(f, dir, ops) == runOpsFrom(f, dir, ops, 1, <<>>)

RECURSIVE summarizeFrom(_, _, _)
summarizeFrom(results, i, s) ==
    IF i > Len(results) THEN s
    ELSE summarizeFrom(results, i + 1,
                       IF results[i].Pass THEN [s EXCEPT !.Pass = @ + 1] ELSE [s EXCEPT !.Fail = @ + 1])

\* a count that starts behind the first result
summarizeSkipFirst(results) == summarizeFrom(results, 2, [Pass |-> 0, Fail |-> 0, Total |-> Len(results)])

summarize(results) == summarizeFrom(results, 1, [Pass |-> 0, Fail |-> 0, Total |-> Len(results)])

----------------------------------------------------------------------------
(* The suite orchestrators *)

Snapshot(exists, files) ==
    [Timestamp |-> "RFC3339", DirExists |-> exists, FileCount |-> Len(files), Files |-> files]
NoSnapshot == Snapshot(FALSE, <<>>)

NoSummary == [Pass |-> 0, Fail |-> 0, Total |-> 0]
NoResult == [Dir |-> <<>>, Mode |-> "none", Before |-> NoSnapshot, Tests |-> <<>>,
             After |-> NoSnapshot, Summary |-> NoSummary, ExistingFiles |-> <<>>]
NoLoc == [before |-> NoSnapshot, existing |-> <<>>, results |-> <<>>, sharedResults |-> <<>>]

IsolatedDir(runID) == <<NI("test-isolated-", runID, "")>>
SharedDir == <<N("shared", "")>>
\* one run directory for all runs
RunDirFixed(runID) == Join(SharedDir, NI("run-", 0, ""))

RunDir(runID) == Join(SharedDir, NI("run-", runID, ""))

\* the invocations in flight; the model lets at most two run at a time
InFlight == {q \in RunIds : pc[q] \notin {"idle", "iso_done", "sh_done", "crashed"}}
MayStart(r) == pc[r] = "idle" /\ \A q1, q2 \in InFlight : q1 = q2

\* RunIsolatedSuite, up to the before snapshot
IsoStart(r) ==
    /\ MayStart(r)
    /\ loc' = [loc EXCEPT ![r] = [NoLoc EXCEPT !.before = Snapshot(Stat(fs, IsolatedDir(r)).err = NoErr, <<>>)]]
    /\ pc' = [pc EXCEPT ![r] = "iso_ops"]
    /\ UNCHANGED <<broken, fs, ret, prior, eng>>

\* results := runOps(dir, coreOps())
IsoRunOps(r) ==
    /\ pc[r] = "iso_ops"
    /\ \E out \in {runOps(fs, IsolatedDir(r), coreOps)} :
           /\ fs' = out.fs
           /\ loc' = [loc EXCEPT ![r].results = out.results]
           /\ pc' = [pc EXCEPT ![r] = IF out.escaped THEN "crashed" ELSE "iso_remove"]
    /\ UNCHANGED <<broken, ret, prior, eng>>

\* a cleanup with os.Remove, which does not remove a directory that has entries
IsoRemove(r) ==
    /\ pc[r] = "iso_remove"
    /\ fs' = Remove(fs, IsolatedDir(r)).fs
    /\ pc' = [pc EXCEPT ![r] = "iso_after"]
    /\ UNCHANGED <<broken, loc, ret, prior, eng>>

\* os.RemoveAll(dir), its error ignored
IsoRemoveAll(r) ==
    /\ pc[r] = "iso_remove"
    /\ fs' = RemoveAll(fs, IsolatedDir(r)).fs
    /\ pc' = [pc EXCEPT ![r] = "iso_after"]
    /\ UNCHANGED <<broken, loc, ret, prior, eng>>

\* the after snapshot and the return
IsoReturn(r) ==
    /\ pc[r] = "iso_after"
    /\ ret' = [ret EXCEPT ![r] =
                 [Dir |-> IsolatedDir(r), Mode |-> "isolated", Before |-> loc[r].before,
                  Tests |-> loc[r].results,
                  After |-> Snapshot(Stat(fs, IsolatedDir(r)).err = NoErr, <<>>),
                  Summary |-> summarize(loc[r].results), ExistingFiles |-> <<>>]]
    /\ pc' = [pc EXCEPT ![r] = "iso_returned"]
    /\ loc' = [loc EXCEPT ![r] = NoLoc]
    /\ UNCHANGED <<broken, fs, prior, eng>>

\* a snapshot that counts the entries and does not keep their names
DirSnapshotNoNames(f, d) ==
    LET rd == ReadDir(f, d)
    IN  IF rd.err = NoErr
        THEN [Timestamp |-> "RFC3339", DirExists |-> TRUE, FileCount |-> Len(rd.entries), Files |-> <<>>]
        ELSE NoSnapshot

\* the snapshot of a directory that RunSharedSuite takes with os.ReadDir
DirSnapshot(f, d) ==
    LET rd == ReadDir(f, d)
    IN  IF rd.err = NoErr THEN Snapshot(TRUE, rd.entries) ELSE NoSnapshot

\* RunSharedSuite, up to the before snapshot
ShStart(r) ==
    /\ MayStart(r)
    /\ \E before \in {DirSnapshot(fs, SharedDir)} :
           loc' = [loc EXCEPT ![r] = [NoLoc EXCEPT !.before = before, !.existing = before.Files]]
    /\ prior' = [prior EXCEPT ![r] = {q \in RunIds : pc[q] \in {"sh_returned", "sh_done"}}]
    /\ pc' = [pc EXCEPT ![r] = "sh_core"]
    /\ UNCHANGED <<broken, fs, ret, eng>>

\* results := runOps(runDir, coreOps())
ShRunCore(r) ==
    /\ pc[r] = "sh_core"
    /\ \E out \in {runOps(fs, RunDir(r), coreOps)} :
           /\ fs' = out.fs
           /\ loc' = [loc EXCEPT ![r].results = out.results]
           /\ pc' = [pc EXCEPT ![r] = IF out.escaped THEN "crashed" ELSE "sh_shared"]
    /\ UNCHANGED <<broken, ret, prior, eng>>

\* one iteration of runOps(sharedDir, sharedOps(runID)); after the last one,
\* results = append(results, sharedResults...)
ShRunSharedOp(r) ==
    /\ pc[r] = "sh_shared"
    /\ \E i \in {Len(loc[r].sharedResults) + 1} :
       \E step \in {runOp(sharedOps(r)[i], fs, SharedDir)} :
       \E sharedResults \in {Append(loc[r].sharedResults, step.tr)} :
           /\ fs' = step.fs
           /\ IF step.escaped
              THEN /\ pc' = [pc EXCEPT ![r] = "crashed"]
                   /\ loc' = loc
              ELSE IF i < Len(sharedOps(r))
              THEN /\ pc' = pc
                   /\ loc' = [loc EXCEPT ![r].sharedResults = sharedResults]
              ELSE /\ pc' = [pc EXCEPT ![r] = "sh_remove"]
                   /\ loc' = [loc EXCEPT ![r].sharedResults = sharedResults,
                                         ![r].results = loc[r].results \o sharedResults]
    /\ UNCHANGED <<broken, ret, prior, eng>>

\* a cleanup of the shared root instead of the directory of the run
ShRemoveAllShared(r) ==
    /\ pc[r] = "sh_remove"
    /\ fs' = RemoveAll(fs, SharedDir).fs
    /\ pc' = [pc EXCEPT ![r] = "sh_after"]
    /\ UNCHANGED <<broken, loc, ret, prior, eng>>

\* a shared run that leaves its run directory behind
ShSkipRemove(r) ==
    /\ pc[r] = "sh_remove"
    /\ pc' = [pc EXCEPT ![r] = "sh_after"]
    /\ UNCHANGED <<broken, fs, loc, ret, prior, eng>>

\* os.RemoveAll(runDir), its error ignored
ShRemoveAll(r) ==
    /\ pc[r] = "sh_remove"
    /\ fs' = RemoveAll(fs, RunDir(r)).fs
    /\ pc' = [pc EXCEPT ![r] = "sh_after"]
    /\ UNCHANGED <<broken, loc, ret, prior, eng>>

\* a return whose ExistingFiles are the entries of the shared root at the end
\* of the run
ShReturnExistingAtEnd(r) ==
    /\ pc[r] = "sh_after"
    /\ ret' = [ret EXCEPT ![r] =
                 [Dir |-> SharedDir, Mode |-> "shared", Before |-> loc[r].before,
                  Tests |-> loc[r].results,
                  After |-> DirSnapshot(fs, SharedDir),
                  Summary |-> summarize(loc[r].results),
                  ExistingFiles |-> DirSnapshot(fs, SharedDir).Files]]
    /\ pc' = [pc EXCEPT ![r] = "sh_returned"]
    /\ loc' = [loc EXCEPT ![r] = NoLoc]
    /\ UNCHANGED <<broken, fs, prior, eng>>

\* the after snapshot and the return
ShReturn(r) ==
    /\ pc[r] = "sh_after"
    /\ ret' = [ret EXCEPT ![r] =
                 [Dir |-> SharedDir, Mode |-> "shared", Before |-> loc[r].before,
                  Tests |-> loc[r].results,
                  After |-> DirSnapshot(fs, SharedDir),
                  Summary |-> summarize(loc[r].results), ExistingFiles |-> loc[r].existing]]
    /\ pc' = [pc EXCEPT ![r] = "sh_returned"]
    /\ loc' = [loc EXCEPT ![r] = NoLoc]
    /\ UNCHANGED <<broken, fs, prior, eng>>

\* the caller has serialized the SuiteResult and drops it
Respond(r) ==
    /\ pc[r] \in {"iso_returned", "sh_returned"}
    /\ pc' = [pc EXCEPT ![r] = IF pc[r] = "iso_returned" THEN "iso_done" ELSE "sh_done"]
    /\ ret' = [ret EXCEPT ![r] = NoResult]
    /\ prior' = [prior EXCEPT ![r] = {}]
    /\ UNCHANGED <<broken, fs, loc, eng>>

----------------------------------------------------------------------------
(* Specifications *)

RECURSIVE SubsetsUpTo(_, _)
SubsetsUpTo(S, k) ==
    IF k = 0 THEN {{}}
    ELSE LET P == SubsetsUpTo(S, k - 1) IN P \cup {B \cup {c} : B \in P, c \in S}

\* basePath is an existing, empty directory
FreshFs == (<<>> :> DirNode)

NoEng == [state |-> "off", ops |-> <<>>, i |-> 1, results |-> <<>>, calls |-> <<>>]

\* the system calls the orchestrators and the shared probes make on the shared root
SharedSyscalls == {"MkdirAll", "WriteFile", "ReadDir", "ReadFile", "RemoveAll", "Stat"}

\* at most one of them is broken
Init ==
    /\ broken \in {{}} \cup {{c} : c \in SharedSyscalls}
    /\ fs = FreshFs
    /\ pc = [r \in RunIds |-> "idle"]
    /\ loc = [r \in RunIds |-> NoLoc]
    /\ ret = [r \in RunIds |-> NoResult]
    /\ prior = [r \in RunIds |-> {}]
    /\ eng = NoEng

Step(r) ==
        \/ IsoStart(r)
        \/ IsoRunOps(r)
        \/ IsoRemoveAll(r)
        \/ IsoReturn(r)
        \/ ShStart(r)
        \/ ShRunCore(r)
        \/ ShRunSharedOp(r)
        \/ ShRemoveAll(r)
        \/ ShReturn(r)
        \/ Respond(r)

Next == \E r \in RunIds : Step(r)

\* concurrent invocations with distinct run ids
Spec == Init /\ [][Next]_vars

(* invocations in succession: one starts when no other is at work *)

NextSeq == \E r \in RunIds : InFlight \subseteq {r} /\ Step(r)

SpecSeq == Init /\ [][NextSeq]_vars

(* one invocation, on a filesystem that may lack any of the system calls *)

InitOne ==
    /\ broken \in SubsetsUpTo(Capabilities, MaxBroken)
    /\ fs = FreshFs
    /\ pc = [r \in RunIds |-> "idle"]
    /\ loc = [r \in RunIds |-> NoLoc]
    /\ ret = [r \in RunIds |-> NoResult]
    /\ prior = [r \in RunIds |-> {}]
    /\ eng = NoEng

NextOne == Step(1)

SpecOne == InitOne /\ [][NextOne]_vars

(* one invocation, on a filesystem whose fault may end while the invocation
   is in flight *)

\* the system calls work again
Recover ==
    /\ broken # {}
    /\ InFlight # {}
    /\ broken' = {}
    /\ UNCHANGED <<fs, pc, loc, ret, prior, eng>>

NextOutage == Step(1) \/ Recover

SpecOutage == InitOne /\ [][NextOutage]_vars

\* the steps of an invocation behind its start: one of them is possible at
\* every position from the start to the response
Running(r) ==
    \/ IsoRunOps(r) \/ IsoRemoveAll(r) \/ IsoReturn(r)
    \/ ShRunCore(r) \/ ShRunSharedOp(r) \/ ShRemoveAll(r) \/ ShReturn(r)
    \/ Respond(r)
InProgress(r) ==
    pc[r] \in {"iso_ops", "iso_remove", "iso_after", "iso_returned",
               "sh_core", "sh_shared", "sh_remove", "sh_after", "sh_returned"}

\* the goroutine of an invocation keeps running: weak fairness of Running(1),
\* which is enabled exactly where InProgress(1) holds
FairSpecOne == SpecOne /\ ([]<>~InProgress(1) \/ []<><<Running(1)>>_vars)

(* runOps over an arbitrary catalogue *)

EnginePool == {coreOps[k] : k \in 1..3}
EngineDir == <<N("engine", "")>>

RECURSIVE SeqsUpTo(_, _)
SeqsUpTo(S, n) ==
    IF n = 0 THEN {<<>>}
    ELSE LET P == SeqsUpTo(S, n - 1) IN P \cup {Append(q, x) : q \in P, x \in S}

InitEngine ==
    /\ broken \in SubsetsUpTo(Capabilities, MaxBroken)
    /\ fs = FreshFs
    /\ pc = [r \in RunIds |-> "idle"]
    /\ loc = [r \in RunIds |-> NoLoc]
    /\ ret = [r \in RunIds |-> NoResult]
    /\ prior = [r \in RunIds |-> {}]
    /\ \E ops \in SeqsUpTo(EnginePool, MaxCatalogueLen) :
           eng = [state |-> "running", ops |-> ops, i |-> 1, results |-> <<>>, calls |-> <<>>]

\* an iteration that appends the result inside the closure, behind o.Fn: the
\* result of a probe that panics is lost
EngStepDropPanicked ==
    /\ eng.state = "running"
    /\ eng.i <= Len(eng.ops)
    /\ \E step \in {runOp(eng.ops[eng.i], fs, EngineDir)} :
           /\ fs' = step.fs
           /\ eng' = IF StrHasPrefix(step.tr.Error, "panic: ")
                     THEN [eng EXCEPT !.i = @ + 1, !.calls = Append(@, eng.ops[eng.i].Fn)]
                     ELSE [eng EXCEPT !.i = @ + 1, !.results = Append(@, step.tr),
                                      !.calls = Append(@, eng.ops[eng.i].Fn)]
    /\ UNCHANGED <<broken, pc, loc, ret, prior>>

\* an iteration that invokes a probe a second time when it did not pass
EngStepRetry ==
    /\ eng.state = "running"
    /\ eng.i <= Len(eng.ops)
    /\ \E first \in {runOp(eng.ops[eng.i], fs, EngineDir)} :
       \E step \in {IF first.tr.Pass THEN first ELSE runOp(eng.ops[eng.i], first.fs, EngineDir)} :
           /\ fs' = step.fs
           /\ eng' = [eng EXCEPT !.i = @ + 1, !.results = Append(@, step.tr),
                                 !.calls = IF first.tr.Pass THEN Append(@, eng.ops[eng.i].Fn)
                                           ELSE @ \o <<eng.ops[eng.i].Fn, eng.ops[eng.i].Fn>>]
    /\ UNCHANGED <<broken, pc, loc, ret, prior>>

\* one iteration of the loop of runOps: o.Fn(dir) is invoked once, and the
\* iteration ends behind its return or behind the recover of its panic
EngStep ==
    /\ eng.state = "running"
    /\ eng.i <= Len(eng.ops)
    /\ \E step \in {runOp(eng.ops[eng.i], fs, EngineDir)} :
           /\ fs' = step.fs
           /\ eng' = IF step.escaped
                     THEN [eng EXCEPT !.state = "crashed", !.calls = Append(@, eng.ops[eng.i].Fn)]
                     ELSE [eng EXCEPT !.i = @ + 1, !.results = Append(@, step.tr),
                                      !.calls = Append(@, eng.ops[eng.i].Fn)]
    /\ UNCHANGED <<broken, pc, loc, ret, prior>>

\* return results
EngReturn ==
    /\ eng.state = "running"
    /\ eng.i > Len(eng.ops)
    /\ eng' = [eng EXCEPT !.state = "returned"]
    /\ UNCHANGED <<broken, fs, pc, loc, ret, prior>>

NextEngine == EngStep \/ EngReturn

SpecEngine == InitEngine /\ [][NextEngine]_vars

(* runOps(dir, coreOps()), one probe at a time *)

InitCore ==
    /\ broken \in SubsetsUpTo(Capabilities, MaxBroken)
    /\ fs = FreshFs
    /\ pc = [r \in RunIds |-> "idle"]
    /\ loc = [r \in RunIds |-> NoLoc]
    /\ ret = [r \in RunIds |-> NoResult]
    /\ prior = [r \in RunIds |-> {}]
    /\ eng = [state |-> "running", ops |-> coreOps, i |-> 1, results |-> <<>>, calls |-> <<>>]

SpecCore == InitCore /\ [][NextEngine]_vars

(* runOps(dir, coreOps()) on a filesystem that is sound at the start and on
   which one system call may begin to fail between two probes *)

InitOnset ==
    /\ broken = {}
    /\ fs = FreshFs
    /\ pc = [r \in RunIds |-> "idle"]
    /\ loc = [r \in RunIds |-> NoLoc]
    /\ ret = [r \in RunIds |-> NoResult]
    /\ prior = [r \in RunIds |-> {}]
    /\ eng = [state |-> "running", ops |-> coreOps, i |-> 1, results |-> <<>>, calls |-> <<>>]

\* from now on the calls of one kind fail
Onset ==
    /\ eng.state = "running"
    /\ broken = {}
    /\ \E c \in Capabilities : broken' = {c}
    /\ UNCHANGED <<fs, pc, loc, ret, prior, eng>>

NextOnset == EngStep \/ EngReturn \/ Onset

SpecOnset == InitOnset /\ [][NextOnset]_vars

(* one core probe, invoked on a directory that is missing, empty, or holds
   test.txt only; the filesystem has no faults *)

ProbeDirs ==
    {FreshFs,
     MkdirAll(FreshFs, EngineDir).fs,
     WriteFile(MkdirAll(FreshFs, EngineDir).fs, Join(EngineDir, TestTxt), <<"hello nfs">>, "-rw-r--r--").fs}

InitProbe ==
    /\ broken = {}
    /\ fs \in ProbeDirs
    /\ pc = [r \in RunIds |-> "idle"]
    /\ loc = [r \in RunIds |-> NoLoc]
    /\ ret = [r \in RunIds |-> NoResult]
    /\ prior = [r \in RunIds |-> {}]
    /\ \E k \in 1..Len(coreOps) :
           eng = [state |-> "running", ops |-> <<coreOps[k]>>, i |-> 1, results |-> <<>>, calls |-> <<>>]

SpecProbe == InitProbe /\ [][NextEngine]_vars

(* concurrent invocations whose runOps over coreOps interleave probe by probe,
   on a filesystem without faults *)

\* the directory that the core probes of run r get
CoreDir(r) == IF pc[r] = "iso_ops" THEN IsolatedDir(r) ELSE RunDir(r)

\* a runOps that is left behind its first probe
CoreStepLeaveEarly(r) ==
    /\ pc[r] \in {"iso_ops", "sh_core"}
    /\ \E i \in {Len(loc[r].results) + 1} :
       \E step \in {runOp(coreOps[i], fs, CoreDir(r))} :
           /\ fs' = step.fs
           /\ loc' = [loc EXCEPT ![r].results = Append(@, step.tr)]
           /\ pc' = IF step.escaped THEN [pc EXCEPT ![r] = "crashed"]
                     ELSE [pc EXCEPT ![r] = IF pc[r] = "iso_ops" THEN "iso_remove" ELSE "sh_shared"]
    /\ UNCHANGED <<broken, ret, prior, eng>>

\* one iteration of runOps(dir, coreOps()) in RunIsolatedSuite or
\* RunSharedSuite; behind the last one the orchestrator goes on
CoreStep(r) ==
    /\ pc[r] \in {"iso_ops", "sh_core"}
    /\ \E i \in {Len(loc[r].results) + 1} :
       \E step \in {runOp(coreOps[i], fs, CoreDir(r))} :
           /\ fs' = step.fs
           /\ loc' = [loc EXCEPT ![r].results = Append(@, step.tr)]
           /\ pc' = IF step.escaped THEN [pc EXCEPT ![r] = "crashed"]
                     ELSE IF i < Len(coreOps) THEN pc
                     ELSE [pc EXCEPT ![r] = IF pc[r] = "iso_ops" THEN "iso_remove" ELSE "sh_shared"]
    /\ UNCHANGED <<broken, ret, prior, eng>>

InitPair ==
    /\ broken = {}
    /\ fs = FreshFs
    /\ pc = [r \in RunIds |-> "idle"]
    /\ loc = [r \in RunIds |-> NoLoc]
    /\ ret = [r \in RunIds |-> NoResult]
    /\ prior = [r \in RunIds |-> {}]
    /\ eng = NoEng

NextPair ==
    \E r \in RunIds :
        \/ IsoStart(r)
        \/ CoreStep(r)
        \/ IsoRemoveAll(r)
        \/ IsoReturn(r)
        \/ ShStart(r)
        \/ ShRunSharedOp(r)
        \/ ShRemoveAll(r)
        \/ ShReturn(r)
        \/ Respond(r)

SpecPair == InitPair /\ [][NextPair]_vars

(* concurrent_writes, with its goroutines: main goes through the positions
   spawn (the loop of go statements), wait (wg.Wait), drain (the range over
   errs), verify (the loop of reads) and returned; writer idx is "none" before
   its go statement, "ready" behind it and "done" behind its deferred wg.Done *)

Writers == 0..(NumWriters - 1)

\* the directory of the probe, in which the files of the writers in S cannot be
\* written: their names are those of directories
WritersFs(S) ==
    [p \in {Join(EngineDir, WriterFile(idx)) : idx \in S} |-> DirNode]
        @@ (EngineDir :> DirNode) @@ FreshFs

\* a channel with a place less than there are writers
ErrsCapOneShort == NumWriters - 1

\* errs := make(chan error, n)
ErrsCap == NumWriters

InitWriters ==
    /\ broken \in SubsetsUpTo(Capabilities, MaxBroken)
    /\ fs \in IF broken = {}
              THEN {FreshFs} \cup {WritersFs(S) : S \in SUBSET Writers}
              ELSE {FreshFs, WritersFs({})}
    /\ pc = [r \in RunIds |-> "idle"]
    /\ loc = [r \in RunIds |-> NoLoc]
    /\ ret = [r \in RunIds |-> NoResult]
    /\ prior = [r \in RunIds |-> {}]
    /\ eng = [state |-> "concurrent_writes", main |-> "spawn", k |-> 0, wg |-> 0,
              w |-> [idx \in Writers |-> "none"] @@ <<>>, errs |-> <<>>,
              i |-> 0, reads |-> 0, err |-> NoErr]

\* wg.Add(1); go func(idx int) {...}(i)
CwSpawn ==
    /\ eng.state = "concurrent_writes"
    /\ eng.main = "spawn"
    /\ eng' = IF eng.k < NumWriters
              THEN [eng EXCEPT !.wg = @ + 1, !.w = (eng.k :> "ready") @@ @, !.k = @ + 1]
              ELSE [eng EXCEPT !.main = "wait"]
    /\ UNCHANGED <<broken, fs, pc, loc, ret, prior>>

\* the goroutine of writer idx: os.WriteFile, the error to the channel, wg.Done.
\* The send waits for a place in the channel.
CwWriter(idx) ==
    /\ eng.state = "concurrent_writes"
    /\ eng.w[idx] = "ready"
    /\ \E wr \in {WriteFile(fs, Join(EngineDir, WriterFile(idx)), WriterData(idx), "-rw-r--r--")} :
           /\ wr.err # NoErr => Len(eng.errs) < ErrsCap
           /\ fs' = wr.fs
           /\ eng' = [eng EXCEPT !.w = (idx :> "done") @@ @, !.wg = @ - 1,
                                 !.errs = IF wr.err # NoErr
                                          THEN Append(@, <<"writer ", ToString(idx), ": ">> \o wr.err)
                                          ELSE @]
    /\ UNCHANGED <<broken, pc, loc, ret, prior>>

\* a wait that ends as soon as one writer is done
CwWaitForOne ==
    /\ eng.state = "concurrent_writes"
    /\ eng.main = "wait"
    /\ eng.wg < NumWriters
    /\ eng' = [eng EXCEPT !.main = "drain"]
    /\ UNCHANGED <<broken, fs, pc, loc, ret, prior>>

\* wg.Wait(); close(errs)
CwWait ==
    /\ eng.state = "concurrent_writes"
    /\ eng.main = "wait"
    /\ eng.wg = 0
    /\ eng' = [eng EXCEPT !.main = "drain"]
    /\ UNCHANGED <<broken, fs, pc, loc, ret, prior>>

\* for err := range errs { return ..., err }
CwDrain ==
    /\ eng.state = "concurrent_writes"
    /\ eng.main = "drain"
    /\ eng' = IF eng.errs # <<>>
              THEN [eng EXCEPT !.main = "returned", !.err = eng.errs[1]]
              ELSE [eng EXCEPT !.main = "verify"]
    /\ UNCHANGED <<broken, fs, pc, loc, ret, prior>>

\* one iteration of the verification loop, or the return behind it
CwVerify ==
    /\ eng.state = "concurrent_writes"
    /\ eng.main = "verify"
    /\ IF eng.i >= NumWriters
       THEN /\ eng' = [eng EXCEPT !.main = "returned"]
            /\ fs' = fs
       ELSE \E rd \in {ReadFile(fs, Join(EngineDir, WriterFile(eng.i)))} :
              IF rd.err # NoErr
              THEN /\ eng' = [eng EXCEPT !.main = "returned", !.reads = @ + 1,
                                         !.err = <<"verify writer ", ToString(eng.i), ": ">> \o rd.err]
                   /\ fs' = fs
              ELSE IF rd.data # WriterData(eng.i)
              THEN /\ eng' = [eng EXCEPT !.main = "returned", !.reads = @ + 1,
                                         !.err = <<"writer ", ToString(eng.i), " content mismatch: got ">> \o rd.data]
                   /\ fs' = fs
              ELSE /\ eng' = [eng EXCEPT !.i = @ + 1, !.reads = @ + 1]
                   /\ fs' = Remove(fs, Join(EngineDir, WriterFile(eng.i))).fs
    /\ UNCHANGED <<broken, pc, loc, ret, prior>>

NextWriters ==
    \/ CwSpawn
    \/ \E idx \in Writers : CwWriter(idx)
    \/ CwWait
    \/ CwDrain
    \/ CwVerify

SpecWriters == InitWriters /\ [][NextWriters]_vars

\* the scheduler runs a goroutine that can run
FairSpecWriters == SpecWriters /\ WF_vars(NextWriters)

----------------------------------------------------------------------------
(* Properties of the execution engine *)

Panicked(tr) == ~tr.Pass /\ StrHasPrefix(tr.Error, "panic: ")
Errored(tr) == ~tr.Pass /\ ~StrHasPrefix(tr.Error, "panic: ")

\* C1: for every catalogue and every combination of probe outcomes (success,
\* returned error, panic), runOps has one result per probe it has run, the
\* i-th result carries the name of the i-th probe, and the results it returns
\* are as many as the probes of the catalogue. (The loop taken step by step
\* returns what runOps returns as a whole.)
C1_OneResultPerProbe ==
    /\ eng.state = "running" => Len(eng.results) = eng.i - 1
    /\ eng.state = "returned" =>
          /\ Len(eng.results) = Len(eng.ops)
          /\ eng.results = runOps(FreshFs, EngineDir, eng.ops).results
    /\ \A k \in 1..Len(eng.results) : eng.results[k].Name = eng.ops[k].Name

\* runOps has returned from a catalogue of full length in which one probe
\* passed, one returned an error and one panicked
C1_Witness ==
    /\ eng.state = "returned"
    /\ Len(eng.ops) = MaxCatalogueLen
    /\ \E k \in 1..Len(eng.results) : eng.results[k].Pass
    /\ \E k \in 1..Len(eng.results) : Errored(eng.results[k])
    /\ \E k \in 1..Len(eng.results) : Panicked(eng.results[k])

\* the step of runOps over a probe that panics
PanicStep ==
    /\ eng.state = "running"
    /\ eng.i <= Len(eng.ops)
    /\ Call(eng.ops[eng.i], fs, EngineDir).panicked

\* C3: when a probe panics, runOps records a failed result (Pass = false) whose
\* error starts with "panic:", the panic does not leave runOps, and runOps goes
\* on to the next probe: no step ends the loop before the last probe.
C3_PanicIsRecorded ==
    [][/\ eng'.state # "crashed"
       /\ eng'.state = "returned" => eng.i > Len(eng.ops)
       /\ PanicStep =>
            /\ eng'.state = "running"
            /\ eng'.i = eng.i + 1
            /\ Len(eng'.results) = eng.i
            /\ eng'.results[eng.i].Name = eng.ops[eng.i].Name
            /\ Panicked(eng'.results[eng.i])
            /\ eng'.results[eng.i].Error[1] = "panic: "]_vars

\* a probe has panicked and a later probe of the catalogue has run and is reported
C3_Witness ==
    \E k \in 1..Len(eng.results) :
        /\ Panicked(eng.results[k])
        /\ k < Len(eng.results)
        /\ eng.results[Len(eng.results)].Pass

----------------------------------------------------------------------------
(* Properties of the suite results *)

\* the SuiteResult that run r has just returned
HasReturned(r) == pc[r] \in {"iso_returned", "sh_returned"}

\* C2: in every suite result, isolated or shared, whatever the outcomes of the
\* probes, Summary.Pass + Summary.Fail = Summary.Total = len(Tests), with
\* Summary.Pass the number of results that pass; the Total of a shared run
\* counts the core probes and the three shared probes.
C2_SummaryCounts ==
    \A r \in RunIds :
        HasReturned(r) =>
            LET t == ret[r].Tests
                s == ret[r].Summary
            IN  /\ s.Pass + s.Fail = s.Total
                /\ s.Total = Len(t)
                /\ s.Pass = Cardinality({k \in 1..Len(t) : t[k].Pass})
                /\ ret[r].Mode = "isolated" => s.Total = Len(coreOps)
                /\ ret[r].Mode = "shared" => s.Total = Len(coreOps) + 3

\* a shared run has returned a result with passes, returned errors and panics
C2_Witness ==
    \E r \in RunIds :
        /\ pc[r] = "sh_returned"
        /\ ret[r].Summary.Pass > 0
        /\ \E k \in 1..Len(ret[r].Tests) : Errored(ret[r].Tests[k])
        /\ \E k \in 1..Len(ret[r].Tests) : Panicked(ret[r].Tests[k])

Started(r) == pc[r] \in {"iso_ops", "sh_core"}

\* the result is filled in: one test per probe of the mode, and their summary
ResultFilled(r) ==
    /\ ret[r].Mode = (IF pc[r] = "iso_returned" THEN "isolated" ELSE "shared")
    /\ Len(ret[r].Tests) = (IF pc[r] = "iso_returned" THEN Len(coreOps) ELSE Len(coreOps) + Len(sharedOps(r)))
    /\ ret[r].Summary.Total = Len(ret[r].Tests)

\* C4: RunIsolatedSuite and RunSharedSuite always return a SuiteResult: every
\* invocation that has started reaches its return, with Tests and Summary
\* filled in, also when the creation or the removal of the directory fails and
\* when probes return errors or panic.
C4_AlwaysReturns == \A r \in RunIds : Started(r) ~> (HasReturned(r) /\ ResultFilled(r))

\* an invocation has returned on a filesystem that fails to create or to
\* remove directories
C4_Witness ==
    \E r \in RunIds :
        /\ HasReturned(r)
        /\ ResultFilled(r)
        /\ broken \cap {"MkdirAll", "RemoveAll"} # {}
        /\ ret[r].Summary.Fail > 0

----------------------------------------------------------------------------
(* Properties of the shared root *)

MarkerPath(r) == Join(SharedDir, NI("marker-", r, ".txt"))

\* the marker files in the shared root of filesystem f
Markers(f) == {p \in DOMAIN f : Len(p) = 2 /\ Parent(p) = SharedDir /\ IsMarkerName(Base(p))}

\* the result of probe name in the result that run r has returned
TestOf(r, name) == ret[r].Tests[CHOOSE k \in 1..Len(ret[r].Tests) : ret[r].Tests[k].Name = name]

Mentions(str, name) == \E k \in 1..Len(str) : str[k] = NameStr(name)
Holds(names, name) == \E k \in 1..Len(names) : names[k] = name

\* the marker that run r wrote is there, with the content r wrote
OwnMarkerKept(r) ==
    TestOf(r, "write_marker").Pass =>
        /\ Exists(fs, MarkerPath(r))
        /\ fs[MarkerPath(r)].data = MarkerContent(r)

\* the markers that were there when run r started are there
EarlierMarkersKept(r) ==
    \A k \in 1..Len(ret[r].ExistingFiles) :
        IsMarkerName(ret[r].ExistingFiles[k]) => Exists(fs, Join(SharedDir, ret[r].ExistingFiles[k]))

C7_MarkersOnlyGrow ==
    [][/\ \A p \in Markers(fs) : p \in Markers(fs') /\ fs'[p] = fs[p]
       /\ \A p \in Markers(fs') : fs'[p].data = MarkerContent(Base(p).id)]_vars

\* the marker of one shared run is there while that run and another run,
\* shared or isolated, are at work
C7_Witness ==
    \E r, q \in RunIds :
        /\ r # q
        /\ Exists(fs, MarkerPath(q))
        /\ pc[q] \in {"sh_shared", "sh_remove", "sh_after"}
        /\ pc[r] \in {"sh_shared", "sh_remove", "iso_remove"}

\* C8 as the specification states it: in the first RunSharedSuite on a fresh
\* shared root, on a filesystem without faults, read_cross_run passes and
\* reports that no previous markers were found.
C8_FirstRunFindsNoMarkers ==
    (pc[1] = "sh_returned" /\ broken = {} /\ ret[1].ExistingFiles = <<>>) =>
        /\ TestOf(1, "read_cross_run").Pass
        /\ TestOf(1, "read_cross_run").Details = <<"no previous markers found (first run)">>

\* read_cross_run reports the content of a marker
ReportsMarker(tr) == tr.Pass /\ Len(tr.Details) >= 2 /\ tr.Details[1] = "read marker "

\* C9 as the specification states it: when read_cross_run of the shared run r
\* reports the content of a marker, the marker is not the one r wrote, and it
\* is the greatest-named of the markers that r did not write.
C9_ReadsMarkerOfAnotherRun ==
    [][\A r \in RunIds :
         (pc[r] = "sh_shared" /\ Len(loc[r].sharedResults) = 2
            /\ Len(loc'[r].sharedResults) = 3 /\ ReportsMarker(loc'[r].sharedResults[3])) =>
             LET others == {Base(p) : p \in Markers(fs)} \ {MarkerName(r)}
             IN  \E n \in others :
                     /\ loc'[r].sharedResults[3].Details[2] = NameStr(n)
                     /\ \A m \in others : ~NameLess(n, m)]_vars

----------------------------------------------------------------------------
(* Properties of the core catalogue *)

\* C11: on a filesystem without faults, RunIsolatedSuite on an empty basePath
\* runs the 28 core probes in a fresh directory and all of them pass:
\* Summary.Fail = 0, and After.DirExists = false.
C11_HealthyIsolatedAllPass ==
    \A r \in RunIds :
        (pc[r] = "iso_returned" /\ broken = {}) =>
            /\ Len(ret[r].Tests) = 28
            /\ \A k \in 1..Len(ret[r].Tests) : ret[r].Tests[k].Pass
            /\ ret[r].Summary.Fail = 0
            /\ ret[r].Summary.Pass = 28
            /\ ~ret[r].Before.DirExists
            /\ ~ret[r].After.DirExists

\* an isolated run has returned on a filesystem without faults
C11_Witness ==
    /\ pc[1] = "iso_returned"
    /\ broken = {}
    /\ ret[1].Mode = "isolated"
    /\ ret[1].Summary.Total = 28
    /\ ret[1].Summary.Fail = 0

\* the probes of the catalogue from the first to the k-th, by their functions
FnsUpTo(ops, k) == [j \in 1..k |-> ops[j].Fn]

\* C12: within one execution of runOps every probe is invoked exactly once,
\* whether it passes, fails or panics, the probes are invoked in the order of
\* the catalogue, and a probe is invoked only when every probe before it has
\* ended and has its result: the invocations so far are the first i - 1
\* probes of the catalogue, each once, and they are as many as the results.
C12_EachProbeOnceInOrder ==
    /\ eng.state = "running" => eng.calls = FnsUpTo(eng.ops, eng.i - 1)
    /\ eng.state = "returned" => eng.calls = FnsUpTo(eng.ops, Len(eng.ops))
    /\ eng.state \in {"running", "returned"} => Len(eng.calls) = Len(eng.results)
    /\ eng.state # "crashed"

\* runOps has returned from a catalogue in which a probe failed, a probe
\* panicked and a probe passed, each invoked once
C12_Witness ==
    /\ eng.state = "returned"
    /\ Len(eng.calls) = MaxCatalogueLen
    /\ \E k \in 1..Len(eng.results) : Errored(eng.results[k])
    /\ \E k \in 1..Len(eng.results) : Panicked(eng.results[k])
    /\ \E k \in 1..Len(eng.results) : eng.results[k].Pass /\ k > 1

\* C13 as the specification states it: a core probe that is invoked on a
\* directory that does not exist, or that lacks what earlier probes leave,
\* returns a success or an error; it does not panic.
C13_ProbesReturn ==
    \A k \in 1..Len(eng.results) : ~Panicked(eng.results[k])

\* C13, amended: a core probe that is invoked on a directory that does not
\* exist, or that lacks what earlier probes leave, returns a success, or an
\* error that is not empty, except read_file and chmod_file: they use the
\* FileInfo of os.Stat without a look at its error and panic when test.txt is
\* missing, and only then.
C13_ProbesReturnUnlessStatUnchecked ==
    \A k \in 1..Len(eng.results) :
        /\ Panicked(eng.results[k]) <=>
               /\ eng.ops[k].Fn \in {"opReadFile", "opChmodFile"}
               /\ ~Exists(fs, Join(EngineDir, TestTxt))
        /\ ~Panicked(eng.results[k]) =>
               \/ eng.results[k].Pass /\ eng.results[k].Error = NoErr
               \/ ~eng.results[k].Pass /\ eng.results[k].Error # NoErr

\* a probe that needs a file of an earlier probe has returned an error from a
\* directory that does not exist
C13_Witness ==
    /\ eng.state = "returned"
    /\ eng.ops[1].Fn = "opCopyFile"
    /\ ~Exists(fs, EngineDir)
    /\ Errored(eng.results[1])

\* the probes before the i-th have all passed in the execution of runOps
PassedBefore(i) ==
    /\ eng.state = "running"
    /\ eng.i = i
    /\ \A k \in 1..(i - 1) : eng.results[k].Pass

\* C14: in a run of the core catalogue in which the probes so far have
\* passed, test.txt exists under that name with the content that
\* overwrite_file (5) wrote, from the end of probe 5 to the start of hardlink
\* (20); behind rename_file (7) renamed.txt is absent. So hardlink finds
\* test.txt with the content of probe 5 when probes 1 to 19 passed.
C14_TestTxtSurvives ==
    \A i \in 6..20 :
        PassedBefore(i) =>
            /\ Exists(fs, Join(EngineDir, TestTxt))
            /\ fs[Join(EngineDir, TestTxt)].kind = "file"
            /\ fs[Join(EngineDir, TestTxt)].data = <<"overwritten content">>
            /\ i >= 8 => ~Exists(fs, Join(EngineDir, N("renamed", ".txt")))

\* hardlink is about to start behind 19 probes that passed
C14_Witness ==
    /\ PassedBefore(20)
    /\ eng.ops = coreOps
    /\ eng.ops[eng.i].Fn = "opHardlink"
    /\ Exists(fs, Join(EngineDir, TestTxt))

ExclusiveTxt == Join(EngineDir, N("exclusive", ".txt"))

\* runOps is about to run exclusive_create
AtExclusiveCreate ==
    /\ eng.state = "running"
    /\ eng.i <= Len(eng.ops)
    /\ eng.ops[eng.i].Fn = "opExclusiveCreate"

\* the first exclusive create of the probe succeeds: the file can be opened,
\* its directory is there and the name is free
FirstCreateSucceeds == Ok("OpenFile") /\ IsDirAt(fs, EngineDir) /\ ~Exists(fs, ExclusiveTxt)

\* the filesystem rejects the second exclusive create of an existing path
SecondCreateRejected == Ok("O_EXCL")

\* the verdict of exclusive_create: it passes if and only if its first
\* exclusive create succeeds and its second is rejected, and it fails with
\* "O_EXCL did not reject duplicate create" when the second is accepted
ExclusiveVerdict(tr) ==
    /\ tr.Name = "exclusive_create"
    /\ tr.Pass <=> (FirstCreateSucceeds /\ SecondCreateRejected)
    /\ (FirstCreateSucceeds /\ ~SecondCreateRejected) =>
           /\ ~tr.Pass
           /\ tr.Error = <<"O_EXCL did not reject duplicate create">>

AllWritersDone == \A idx \in Writers : eng.w[idx] = "done"

\* C16: the 5 workers of concurrent_writes write to 5 pairwise distinct
\* paths, and in every interleaving of the workers and the probe, a
\* verification read happens only when all 5 workers have finished: no step
\* reads a concurrent-<i>.txt for verification while a worker is still at
\* work or not yet started.
C16_ReadsBehindAllWriters ==
    /\ Cardinality({Join(EngineDir, WriterFile(idx)) : idx \in Writers}) = 5
    /\ eng.main \in {"drain", "verify"} => AllWritersDone
    /\ eng.reads > 0 => AllWritersDone
    /\ eng.main = "returned" /\ eng.err = NoErr => eng.reads = 5

\* the probe has verified what the 5 workers wrote
C16_Witness ==
    /\ eng.state = "concurrent_writes"
    /\ eng.main = "returned"
    /\ eng.err = NoErr
    /\ eng.reads = 5
    /\ AllWritersDone

----------------------------------------------------------------------------
(* Properties of concurrent invocations *)

\* run r runs a core probe in this step
CoreProbeStep(r) ==
    /\ pc[r] \in {"iso_ops", "sh_core"}
    /\ Len(loc'[r].results) = Len(loc[r].results) + 1

\* path p is not the same in f and g
Differs(f, g, p) ==
    \/ (p \in DOMAIN f) # (p \in DOMAIN g)
    \/ p \in DOMAIN f /\ p \in DOMAIN g /\ f[p] # g[p]

\* what the filesystem f makes different from g lies in directory d, or is
\* the creation of a directory on the way to d
ConfinedTo(f, g, d) ==
    \A p \in DOMAIN f \cup DOMAIN g :
        Differs(f, g, p) =>
            \/ IsUnder(p, d)
            \/ p \in Prefixes(d) /\ p \notin DOMAIN f /\ g[p] = DirNode

\* the verdicts of the core probes of a run that executes alone in directory d
AloneVerdicts(d, n) == [k \in 1..n |-> runOps(FreshFs, d, SubSeq(coreOps, 1, n)).results[k].Pass]

\* C17: for suite invocations with distinct run ids that run concurrently on
\* one basePath, on a filesystem without faults, in every interleaving of
\* their probes: what a core probe of a run changes lies in the directory of
\* that run (test-isolated-<runID> or shared/run-<runID>; the first probe
\* creates that directory, with the shared root on the way to it where it is
\* missing), and the verdict of every core probe is the verdict it has when
\* the run executes alone.
C17_CoreProbesConfined ==
    [][\A r \in RunIds :
         CoreProbeStep(r) =>
             /\ ConfinedTo(fs, fs', CoreDir(r))
             /\ \A q \in RunIds \ {r} :
                    \A p \in DOMAIN fs \cup DOMAIN fs' :
                        (IsUnder(p, IsolatedDir(q)) \/ IsUnder(p, RunDir(q))) => ~Differs(fs, fs', p)
             /\ \E n \in {Len(loc'[r].results)} :
                    loc'[r].results[n].Pass = AloneVerdicts(CoreDir(r), n)[n]]_vars

\* two runs are in the middle of their core probes at the same time, each
\* with files in its own directory
C17_Witness ==
    \E r, q \in RunIds :
        /\ r # q
        /\ pc[r] = "sh_core" /\ Len(loc[r].results) = 9
        /\ pc[q] \in {"sh_core", "iso_ops"} /\ Len(loc[q].results) = 12
        /\ Exists(fs, Join(RunDir(r), TestTxt))
        /\ Exists(fs, Join(IF pc[q] = "sh_core" THEN RunDir(q) ELSE IsolatedDir(q), TestTxt))

----------------------------------------------------------------------------
(* Properties of a shared run on its own *)

AsSet(names) == {names[k] : k \in 1..Len(names)}

RECURSIVE LinesFrom(_, _, _)
LinesFrom(data, line, lines) ==
    IF data = <<>> THEN (IF line = <<>> THEN lines ELSE Append(lines, line))
    ELSE IF data[1] = "\n" THEN LinesFrom(Tail(data), <<>>, Append(lines, line))
    ELSE LinesFrom(Tail(data), Append(line, data[1]), lines)

Lines(data) == LinesFrom(data, <<>>, <<>>)

\* write_marker of the shared run r has passed
WriteMarkerPassed(r) ==
    \/ /\ pc[r] \in {"sh_shared", "sh_remove", "sh_after"}
       /\ Len(loc[r].sharedResults) >= 1
       /\ loc[r].sharedResults[1].Name = "write_marker"
       /\ loc[r].sharedResults[1].Pass
    \/ /\ pc[r] = "sh_returned"
       /\ TestOf(r, "write_marker").Pass

\* C19: after write_marker has passed for run id r, the shared root holds a
\* file named marker-<r>.txt whose content is two lines: run_id=<r>, and
\* timestamp=<the time of writing, RFC3339>.
C19_MarkerFormat ==
    \A r \in RunIds :
        WriteMarkerPassed(r) =>
            \E p \in DOMAIN fs :
                /\ Parent(p) = SharedDir
                /\ NameStr(Base(p)) = "marker-" \o ToString(r) \o ".txt"
                /\ fs[p].kind = "file"
                /\ Lines(fs[p].data) = << <<"run_id=", ToString(r)>>, <<"timestamp=", "RFC3339">> >>

\* write_marker of a run has just passed, behind the marker of an earlier run
C19_Witness ==
    \E r \in RunIds : \E q \in prior[r] :
        /\ pc[r] = "sh_shared"
        /\ Len(loc[r].sharedResults) = 1
        /\ loc[r].sharedResults[1].Pass
        /\ Exists(fs, MarkerPath(r))
        /\ Exists(fs, MarkerPath(q))

----------------------------------------------------------------------------
(* Properties of the content-checking probes *)

\* runOps is about to run the probe of function fn
AtProbe(fn) ==
    /\ eng.state = "running"
    /\ eng.i <= Len(eng.ops)
    /\ eng.ops[eng.i].Fn = fn

\* read_file gets to its read: os.Stat has found test.txt; what it reads is
\* test.txt as it is
ReadFileReads == Stat(fs, Join(EngineDir, TestTxt)).err = NoErr
ReadFileReadBack == ReadFile(fs, Join(EngineDir, TestTxt))

\* write_binary gets to its read-back: its write of the 256 byte values has
\* succeeded; what it reads back is the file behind that write
BinaryBin == Join(EngineDir, N("binary", ".bin"))
WriteBinaryWritten == WriteFile(fs, BinaryBin, <<AllBytes>>, "-rw-r--r--")
WriteBinaryReads == WriteBinaryWritten.err = NoErr
WriteBinaryReadBack == ReadFile(WriteBinaryWritten.fs, BinaryBin)

\* seek_read_write gets to its read-back: its write of "AAAAAAAAAA", its
\* open, its seek and its write of "BBBBB" at offset 5 have succeeded; what it
\* reads back is the file behind these writes
SeekTxt == Join(EngineDir, N("seektest", ".txt"))
SeekFirstWritten == WriteFile(fs, SeekTxt, <<"A", "A", "A", "A", "A", "A", "A", "A", "A", "A">>, "-rw-r--r--")
SeekSecondWritten == FdWrite(SeekFirstWritten.fs, SeekTxt, 5, <<"B", "B", "B", "B", "B">>)
SeekReads ==
    /\ SeekFirstWritten.err = NoErr
    /\ Ok("OpenFile") /\ Ok("Seek")
    /\ SeekSecondWritten.err = NoErr
SeekReadBack == ReadFile(SeekSecondWritten.fs, SeekTxt)

\* the probe passes only on the round trip: its result tr passes only if it
\* has read back want, and it is a failure that tells the mismatch when it has
\* read back other bytes
OnlyOnRoundTrip(tr, reads, rb, want, complaint) ==
    /\ tr.Pass => (reads /\ rb.err = NoErr /\ rb.data = want)
    /\ (reads /\ rb.err = NoErr /\ rb.data # want) =>
           /\ ~tr.Pass
           /\ tr.Error # NoErr
           /\ tr.Error[1] = complaint

\* C20: read_file passes only if the bytes it reads are "hello nfs",
\* write_binary only if the 256 bytes it reads back are the bytes 0..255 it
\* wrote, and seek_read_write only if the file reads back "AAAAABBBBB"; on any
\* other read-back each of them returns a failure.
C20_PassOnlyOnRoundTrip ==
    [][/\ AtProbe("opReadFile") =>
            OnlyOnRoundTrip(eng'.results[eng.i], ReadFileReads, ReadFileReadBack,
                            <<"hello nfs">>, "content mismatch: got ")
       /\ AtProbe("opWriteBinary") =>
            OnlyOnRoundTrip(eng'.results[eng.i], WriteBinaryReads, WriteBinaryReadBack,
                            <<AllBytes>>, "binary data corruption: wrote ")
       /\ AtProbe("opSeekReadWrite") =>
            OnlyOnRoundTrip(eng'.results[eng.i], SeekReads, SeekReadBack,
                            <<"A", "A", "A", "A", "A", "B", "B", "B", "B", "B">>,
                            "seek write mismatch: got ")]_vars

\* the three probes have failed on a filesystem that reads back other bytes
\* than were written
C20_Witness ==
    /\ eng.state = "returned"
    /\ eng.ops = coreOps
    /\ eng.results[1].Pass
    /\ eng.results[2].Error # NoErr /\ eng.results[2].Error[1] = "content mismatch: got "
    /\ eng.results[22].Error # NoErr /\ eng.results[22].Error[1] = "binary data corruption: wrote "
    /\ eng.results[28].Error # NoErr /\ eng.results[28].Error[1] = "seek write mismatch: got "

(* ---- C21 ---- *)

\* the probes that TestIndividualOps runs on a directory of their own
Independent ==
    {"create_file", "mkdir", "nested_mkdir", "large_file_1mb", "concurrent_writes",
     "file_lock", "truncate_file", "mkfifo", "write_binary", "mtime_check",
     "readdir_many", "sparse_write", "temp_file", "exclusive_create", "seek_read_write"}

\* the directory of the probe exists and is empty
EmptyDirFs == MkdirAll(FreshFs, EngineDir).fs

\* one probe of the core catalogue is about to run alone
AloneAt(name) ==
    /\ eng.state = "running"
    /\ Len(eng.ops) = 1
    /\ eng.i = 1
    /\ eng.ops[1].Name = name

\* C21: each probe that the test treats as independent passes when it is run
\* alone, with no earlier probe, against an existing empty directory on a
\* filesystem without faults.
C21_IndependentProbesPassAlone ==
    [][\A name \in Independent :
         (AloneAt(name) /\ fs = EmptyDirFs /\ broken = {}) =>
             /\ eng'.state = "running"
             /\ Len(eng'.results) = 1
             /\ eng'.results[1].Pass
             /\ eng'.results[1].Name = name]_vars

\* truncate_file has passed alone on a directory that was empty and is empty
\* again behind the probe
C21_Witness ==
    /\ eng.state = "returned"
    /\ Len(eng.ops) = 1
    /\ eng.ops[1].Name = "truncate_file"
    /\ eng.results[1].Pass
    /\ fs = EmptyDirFs
    /\ broken = {}

(* ---- C22 ---- *)

\* the order of the catalogue, by the names of the probes
CanonicalOrder ==
    <<"create_file", "read_file", "stat_file", "append_file", "overwrite_file",
      "chmod_file", "rename_file", "copy_file", "symlink", "mkdir", "nested_mkdir",
      "create_in_subdir", "cross_dir_rename", "delete_file", "rmdir", "large_file_1mb",
      "concurrent_writes", "file_lock", "truncate_file", "hardlink", "mkfifo",
      "write_binary", "mtime_check", "readdir_many", "sparse_write", "temp_file",
      "exclusive_create", "seek_read_write">>

\* the names of a catalogue
NamesOf(ops) == [k \in 1..Len(ops) |-> ops[k].Name]

\* the place of a probe in a catalogue, 0 if it is not in it
PlaceOf(ops, name) ==
    IF \E k \in 1..Len(ops) : ops[k].Name = name
    THEN CHOOSE k \in 1..Len(ops) : ops[k].Name = name
    ELSE 0

\* the artifacts that outlive the probe that makes them, by the probe that
\* makes them: the path it creates in the directory of the run
Produces ==
    [create_file      |-> "test.txt",
     copy_file        |-> "test-copy.txt",
     symlink          |-> "test-link.txt",
     mkdir            |-> "subdir",
     nested_mkdir     |-> "deep",
     create_in_subdir |-> "subdir/subfile.txt",
     cross_dir_rename |-> "deep/moved.txt"]

\* the artifacts of earlier probes that a probe reads, changes or removes
Consumes ==
    [read_file        |-> {"test.txt"},
     stat_file        |-> {"test.txt"},
     append_file      |-> {"test.txt"},
     overwrite_file   |-> {"test.txt"},
     chmod_file       |-> {"test.txt"},
     rename_file      |-> {"test.txt"},
     copy_file        |-> {"test.txt"},
     symlink          |-> {"test.txt"},
     create_in_subdir |-> {"subdir"},
     cross_dir_rename |-> {"subdir/subfile.txt", "deep"},
     delete_file      |-> {"test-copy.txt", "test-link.txt"},
     rmdir            |-> {"subdir", "deep", "deep/moved.txt"},
     hardlink         |-> {"test.txt"}]

\* every probe of the catalogue that consumes an artifact comes after the
\* probe that produces it
ConsumersFollowProducers(ops) ==
    \A c \in DOMAIN Consumes : \A a \in Consumes[c] :
        \E p \in DOMAIN Produces :
            /\ Produces[p] = a
            /\ 0 < PlaceOf(ops, p)
            /\ PlaceOf(ops, p) < PlaceOf(ops, c)

\* C22 as stated: the core catalogue has 30 entries, in the canonical order,
\* and every probe that consumes an artifact comes after the probe that
\* produces it.
C22_CatalogueOfThirty ==
    eng.state = "running" =>
        /\ Len(eng.ops) = 30
        /\ \A k \in 1..Len(CanonicalOrder) : eng.ops[k].Name = CanonicalOrder[k]
        /\ ConsumersFollowProducers(eng.ops)

\* C22: the core catalogue that runOps is given has 28 entries, in the
\* canonical order (create, read, stat, append, overwrite, chmod, rename, copy,
\* symlink, mkdir, nested mkdir, create-in-subdir, cross-dir rename, delete,
\* rmdir, large file, concurrent writes, held-descriptor write, truncate,
\* hardlink, mkfifo, binary, mtime, readdir-many, sparse, temp file, exclusive
\* create, seek write), and every probe that consumes an artifact comes after
\* the probe that produces it.
C22_CatalogueOrder ==
    eng.state = "running" =>
        /\ Len(eng.ops) = 28
        /\ NamesOf(eng.ops) = CanonicalOrder
        /\ ConsumersFollowProducers(eng.ops)

\* the whole catalogue has run in this order on a filesystem without faults,
\* and every probe has found what it consumes
C22_Witness ==
    /\ eng.state = "returned"
    /\ broken = {}
    /\ Len(eng.results) = 28
    /\ \A k \in 1..28 : eng.results[k].Name = CanonicalOrder[k] /\ eng.results[k].Pass

(* ---- C23 ---- *)

\* the phases of RunSharedSuite and of RunIsolatedSuite, in their order
SharedPhases == <<"idle", "sh_core", "sh_shared", "sh_remove", "sh_after", "sh_returned", "sh_done">>
IsolatedPhases == <<"idle", "iso_ops", "iso_remove", "iso_after", "iso_returned", "iso_done">>

\* q is p or the phase behind p
NextIn(phases, p, q) ==
    \E k \in 1..Len(phases) :
        /\ phases[k] = p
        /\ q = p \/ (k < Len(phases) /\ q = phases[k + 1])

\* the step is one of run r
Acts(r) == pc'[r] # pc[r] \/ loc'[r] # loc[r]

\* the step keeps the phase order of RunSharedSuite for run r
SharedPhaseOrder(r) ==
    LET n == Len(loc[r].results)
        s == Len(loc[r].sharedResults)
    IN  /\ NextIn(SharedPhases, pc[r], pc'[r])
        \* the Before snapshot is that of the shared root with no probe run
        /\ (pc[r] = "idle" /\ pc'[r] = "sh_core") =>
               /\ loc'[r].before = DirSnapshot(fs, SharedDir)
               /\ loc'[r].results = <<>> /\ loc'[r].sharedResults = <<>>
        \* the core probes, one after the other or all at once
        /\ pc[r] = "sh_core" =>
               /\ s = 0 /\ loc'[r].sharedResults = <<>>
               /\ pc'[r] = "sh_shared" <=> Len(loc'[r].results) = Len(coreOps)
        \* a shared probe starts behind the last core probe
        /\ pc[r] = "sh_shared" =>
               /\ n = Len(coreOps)
               /\ Len(loc'[r].sharedResults) = s + 1
               /\ pc'[r] = "sh_remove" <=> s + 1 = Len(sharedOps(r))
        \* the run directory stays while the probes run
        /\ (pc[r] \in {"sh_core", "sh_shared"} /\ Exists(fs, RunDir(r))) => Exists(fs', RunDir(r))
        \* the removal is behind the last shared probe
        /\ pc[r] = "sh_remove" =>
               /\ n = Len(coreOps) + Len(sharedOps(r))
               /\ s = Len(sharedOps(r))
               /\ fs' = RemoveAll(fs, RunDir(r)).fs
               /\ ret'[r] = NoResult
        \* the After snapshot is behind the removal
        /\ pc[r] = "sh_after" =>
               /\ fs' = fs
               /\ ret'[r].After = DirSnapshot(fs, SharedDir)
               /\ ret'[r].Before = loc[r].before
               /\ Len(ret'[r].Tests) = Len(coreOps) + Len(sharedOps(r))

\* the step keeps the phase order of RunIsolatedSuite for run r
IsolatedPhaseOrder(r) ==
    LET n == Len(loc[r].results)
    IN  /\ NextIn(IsolatedPhases, pc[r], pc'[r])
        /\ (pc[r] = "idle" /\ pc'[r] = "iso_ops") =>
               /\ loc'[r].before = Snapshot(Exists(fs, IsolatedDir(r)), <<>>)
               /\ loc'[r].results = <<>>
        /\ pc[r] = "iso_ops" =>
               /\ pc'[r] = "iso_remove" <=> Len(loc'[r].results) = Len(coreOps)
               /\ Exists(fs, IsolatedDir(r)) => Exists(fs', IsolatedDir(r))
        /\ pc[r] = "iso_remove" =>
               /\ n = Len(coreOps)
               /\ fs' = RemoveAll(fs, IsolatedDir(r)).fs
               /\ ret'[r] = NoResult
        /\ pc[r] = "iso_after" =>
               /\ fs' = fs
               /\ ret'[r].After = Snapshot(Exists(fs, IsolatedDir(r)), <<>>)
               /\ ret'[r].Before = loc[r].before
               /\ Len(ret'[r].Tests) = Len(coreOps)

\* C23: the orchestrators follow their phase order in every execution. In
\* RunSharedSuite the Before snapshot of the shared root is taken before any
\* probe runs, all core probes finish before the first shared probe starts, the
\* run directory is removed only after the last shared probe, and the After
\* snapshot is taken after that removal; in RunIsolatedSuite the Before
\* snapshot precedes all probes, and the removal follows the last probe and
\* precedes the After snapshot.
C23_PhaseOrder ==
    [][\A r \in RunIds :
         /\ (Acts(r) /\ (pc[r] \in {"sh_core", "sh_shared", "sh_remove", "sh_after"} \/ pc'[r] = "sh_core"))
                => SharedPhaseOrder(r)
         /\ (Acts(r) /\ (pc[r] \in {"iso_ops", "iso_remove", "iso_after"} \/ pc'[r] = "iso_ops"))
                => IsolatedPhaseOrder(r)
         \* no step of any run removes the directory of a run whose probes run
         /\ (pc[r] \in {"sh_core", "sh_shared"} /\ Exists(fs, RunDir(r))) => Exists(fs', RunDir(r))
         /\ (pc[r] = "iso_ops" /\ Exists(fs, IsolatedDir(r))) => Exists(fs', IsolatedDir(r))]_vars

\* a shared run and an isolated run have gone through all their phases, one
\* of them while the other was in flight
C23_Witness ==
    \E r, q \in RunIds :
        /\ pc[r] = "sh_returned"
        /\ Len(ret[r].Tests) = Len(coreOps) + Len(sharedOps(r))
        /\ pc[q] = "iso_returned"
        /\ Len(ret[q].Tests) = Len(coreOps)

(* ---- C24 ---- *)

\* the entries of the shared root as os.ReadDir gives them: none when the
\* shared root does not exist or cannot be read
EntriesRead(f) ==
    IF Exists(f, SharedDir) /\ IsDirAt(f, SharedDir) /\ Ok("ReadDir")
    THEN SortNames(Children(f, SharedDir))
    ELSE <<>>

\* C24: ExistingFiles of a RunSharedSuite result is exactly the list of the
\* entries of the shared root read before any probe of that run executed: it
\* is read with no result recorded, kept to the return, equal to Before.Files,
\* and empty with Before.DirExists = false when the shared root does not exist
\* yet. A RunIsolatedSuite result never has ExistingFiles populated.
C24_ExistingFilesReadFirst ==
    [][\A r \in RunIds :
         /\ (pc[r] = "idle" /\ pc'[r] = "sh_core") =>
                /\ loc'[r].existing = EntriesRead(fs)
                /\ loc'[r].results = <<>>
                /\ ~Exists(fs, SharedDir) =>
                       (loc'[r].existing = <<>> /\ ~loc'[r].before.DirExists)
         /\ (pc[r] \in {"sh_core", "sh_shared", "sh_remove"}) =>
                loc'[r].existing = loc[r].existing
         /\ (pc[r] = "sh_after" /\ pc'[r] = "sh_returned") =>
                /\ ret'[r].Mode = "shared"
                /\ ret'[r].ExistingFiles = loc[r].existing
                /\ ret'[r].ExistingFiles = ret'[r].Before.Files
                /\ ~ret'[r].Before.DirExists => ret'[r].ExistingFiles = <<>>
         /\ (pc[r] = "iso_after" /\ pc'[r] = "iso_returned") =>
                /\ ret'[r].Mode = "isolated"
                /\ ret'[r].ExistingFiles = <<>>]_vars

\* a shared run has returned the marker of an earlier run as its only existing
\* file, with its own marker in the shared root by now
C24_Witness ==
    \E r \in RunIds : \E q \in prior[r] :
        /\ pc[r] = "sh_returned"
        /\ ret[r].ExistingFiles = <<MarkerName(q)>>
        /\ Exists(fs, Join(SharedDir, MarkerName(r)))

(* ---- C25 ---- *)

\* the artifacts of C22 as paths in the directory of the run
ArtifactPath ==
    ("test.txt" :> <<TestTxt>>) @@
    ("test-copy.txt" :> <<N("test-copy", ".txt")>>) @@
    ("test-link.txt" :> <<N("test-link", ".txt")>>) @@
    ("subdir" :> <<N("subdir", "")>>) @@
    ("deep" :> <<N("deep", "")>>) @@
    ("subdir/subfile.txt" :> <<N("subdir", ""), N("subfile", ".txt")>>) @@
    ("deep/moved.txt" :> <<N("deep", ""), N("moved", ".txt")>>)

\* the artifacts that the probes behind the i-th take as input
LaterInputs(ops, i) ==
    UNION {Consumes[ops[k].Name] : k \in {k \in (i + 1)..Len(ops) : ops[k].Name \in DOMAIN Consumes}}

\* the paths under dir that are in g and not in f
CreatedUnder(f, g, dir) == {p \in DOMAIN g \ DOMAIN f : IsUnder(p, dir) /\ p # dir}

\* p is an input of a probe behind the i-th, or lies in a directory that is one
HandedOn(p, dir, ops, i) ==
    \E a \in LaterInputs(ops, i) : IsUnder(p, dir \o ArtifactPath[a])

\* the removals of the probes work: os.Remove and os.RemoveAll, whose errors
\* the probes behind rmdir (15) do not look at
RemovalsWork == Ok("Remove") /\ Ok("RemoveAll")

TestTxtMissing ==
    /\ eng.state = "running"
    /\ eng.ops = coreOps
    /\ 1 < eng.i /\ eng.i <= Len(eng.ops)
    /\ ~eng.results[1].Pass
    /\ ~Exists(fs, Join(EngineDir, TestTxt))

\* C26: when test.txt is missing at the time they run (because create_file
\* failed), read_file and chmod_file terminate abnormally on the nil stat
\* result and are recorded by runOps as failures whose error starts with
\* "panic:", whereas stat_file, append_file, copy_file and hardlink return
\* ordinary errors; in all cases the suite still yields one result for each of
\* the 28 probes.
C26_MissingTestTxt ==
    [][/\ (TestTxtMissing /\ eng.ops[eng.i].Fn \in {"opReadFile", "opChmodFile"}) =>
              /\ Len(eng'.results) = eng.i
              /\ Panicked(eng'.results[eng.i])
       /\ (TestTxtMissing /\ eng.ops[eng.i].Fn \in {"opStatFile", "opAppendFile", "opCopyFile", "opHardlink"}) =>
              /\ Len(eng'.results) = eng.i
              /\ Errored(eng'.results[eng.i])
              /\ eng'.results[eng.i].Error # NoErr
       /\ (eng.ops = coreOps /\ eng'.state = "returned") =>
              /\ Len(eng'.results) = 28
              /\ \A k \in 1..28 : eng'.results[k].Name = coreOps[k].Name]_vars

\* create_file has failed and left no test.txt; read_file and chmod_file have
\* panicked, the four others have returned errors, and the suite has its 28
\* results
C26_Witness ==
    /\ eng.state = "returned"
    /\ eng.ops = coreOps
    /\ Len(eng.results) = 28
    /\ ~eng.results[1].Pass
    /\ ~Exists(fs, Join(EngineDir, TestTxt))
    /\ Panicked(eng.results[2]) /\ Panicked(eng.results[6])
    /\ Errored(eng.results[3]) /\ Errored(eng.results[4])
    /\ Errored(eng.results[8]) /\ Errored(eng.results[20])

(* ---- C27 ---- *)

\* the shared root can be created and written to
SharedRootWritable(f) ==
    /\ Ok("MkdirAll") /\ Ok("WriteFile")
    /\ Exists(f, SharedDir) => IsDirAt(f, SharedDir)

\* the results of the shared probes in a list of results of RunSharedSuite
SharedTail(tests) == SubSeq(tests, Len(coreOps) + 1, Len(tests))

\* C27: the three shared probes are executed against the shared root in every
\* RunSharedSuite, whatever the outcomes of the core probes; write_marker
\* itself creates the shared root when it is missing, so that the marker of
\* the run is written whenever the shared root can be created and written to;
\* list_existing lists the entries of the shared root.
C27_SharedProbesAlwaysRun ==
    [][\A r \in RunIds :
         /\ (pc[r] = "sh_shared" /\ Acts(r) /\ loc[r].sharedResults = <<>>) =>
                /\ loc'[r].sharedResults[1].Name = "write_marker"
                /\ SharedRootWritable(fs) =>
                       /\ loc'[r].sharedResults[1].Pass
                       /\ IsDirAt(fs', SharedDir)
                       /\ Exists(fs', Join(SharedDir, MarkerName(r)))
                       /\ fs'[Join(SharedDir, MarkerName(r))].data = MarkerContent(r)
         /\ (pc[r] = "sh_shared" /\ Acts(r) /\ Len(loc[r].sharedResults) = 1) =>
                /\ loc'[r].sharedResults[2].Name = "list_existing"
                /\ loc'[r].sharedResults[2].Pass =>
                       loc'[r].sharedResults[2].Details =
                           <<ToString(Cardinality(Children(fs, SharedDir))), " entries: ">>
                               \o JoinNames(SortNames(Children(fs, SharedDir)))
         /\ (pc[r] = "sh_after" /\ pc'[r] = "sh_returned") =>
                /\ Len(ret'[r].Tests) = Len(coreOps) + 3
                /\ SharedTail(ret'[r].Tests)[1].Name = "write_marker"
                /\ SharedTail(ret'[r].Tests)[2].Name = "list_existing"
                /\ SharedTail(ret'[r].Tests)[3].Name = "read_cross_run"]_vars

\* the run directory could not be created, and every core probe of the
\* shared run has failed but delete_file and rmdir, which have found nothing to
\* remove; the three shared probes have passed, created the shared root and
\* left the marker of the run
C27_Witness ==
    \E r \in RunIds :
        /\ pc[r] = "sh_returned"
        /\ ~ret[r].Before.DirExists
        /\ \A k \in 1..Len(coreOps) :
               ret[r].Tests[k].Pass <=> ret[r].Tests[k].Name \in {"delete_file", "rmdir"}
        /\ \A k \in 1..3 : SharedTail(ret[r].Tests)[k].Pass
        /\ Exists(fs, Join(SharedDir, MarkerName(r)))

(* ---- C28 ---- *)

MtimeTestTxt == Join(EngineDir, N("mtime-test", ".txt"))

\* mtime_check gets to its comparison: its two writes have succeeded and
\* os.Stat has given it the two modification times
MtimesObserved ==
    /\ Ok("WriteFile") /\ Ok("Stat")
    /\ WriteFile(fs, MtimeTestTxt, <<"before">>, "-rw-r--r--").err = NoErr

\* the verdict of mtime_check on the two modification times
MtimeVerdict(tr) ==
    /\ tr.Before = <<"mtime=", ToString(Mtime1)>>
    /\ tr.After = <<"mtime=", ToString(Mtime2)>>
    /\ tr.Pass <=> Mtime2 > Mtime1
    /\ Mtime2 = Mtime1 => (~tr.Pass /\ tr.Error = <<"mtime did not advance">>)

WellFormed(tr) ==
    /\ tr.Pass <=> tr.Error = NoErr
    /\ tr.Pass => tr.Details # EmptyStr
    /\ Panicked(tr) =>
           /\ tr.Before = EmptyStr /\ tr.After = EmptyStr
           /\ tr.Context = EmptyStr /\ tr.Details = EmptyStr

AllWellFormed(results) == \A k \in 1..Len(results) : WellFormed(results[k])

\* C29: every result that runOps produces over the core and the shared
\* catalogue satisfies: Pass is true exactly when Error is empty, a passing
\* result has Details that are not empty, and a result recorded for a probe
\* that panicked has empty Before, After, Context and Details.
C29_ResultsWellFormed ==
    \A r \in RunIds :
        /\ AllWellFormed(loc[r].results)
        /\ AllWellFormed(loc[r].sharedResults)
        /\ AllWellFormed(ret[r].Tests)

\* a shared run has returned results of the three kinds: a probe that passed,
\* one that returned an error and one that panicked, and the shared probes
\* have passed
C29_Witness ==
    \E r \in RunIds :
        /\ pc[r] = "sh_returned"
        /\ Len(ret[r].Tests) = Len(coreOps) + 3
        /\ \E k \in 1..Len(coreOps) : ret[r].Tests[k].Pass
        /\ \E k \in 1..Len(coreOps) : Errored(ret[r].Tests[k])
        /\ \E k \in 1..Len(coreOps) : Panicked(ret[r].Tests[k])
        /\ \A k \in 1..3 : SharedTail(ret[r].Tests)[k].Pass

(* ---- C30 ---- *)

\* C30: concurrent_writes terminates in every interleaving and for every
\* subset of failing writers: the error channel has a place for every worker,
\* so that no worker waits to report its error; the channel is closed only when
\* all workers have finished; and the probe returns a failure if at least one
\* worker has failed.
C30_ConcurrentWritesTerminates ==
    /\ [](/\ Len(eng.errs) <= ErrsCap
          /\ \A idx \in Writers : eng.w[idx] = "ready" => Len(eng.errs) < ErrsCap
          /\ eng.main \in {"drain", "verify", "returned"} => AllWritersDone
          /\ (eng.main = "returned" /\ eng.errs # <<>>) =>
                 (eng.err = eng.errs[1] /\ eng.err # NoErr))
    /\ <>(eng.main = "returned")

\* two of the five writers have failed, the three others have written their
\* files, and the probe has returned the error of the one that failed first
C30_Witness ==
    /\ eng.state = "concurrent_writes"
    /\ eng.main = "returned"
    /\ Len(eng.errs) = 2
    /\ eng.err = eng.errs[1]
    /\ Cardinality({idx \in Writers : fs[Join(EngineDir, WriterFile(idx))].kind = "file"}) = 3

====
